---- MODULE Spec2Model ----
(***************************************************************************)
(* A model of the remote MCP servers of this repository: the three         *)
(* tool-sets (sequential thinking, Playwright, Browser-use), each with its *)
(* module-level session Map and its lazy expiry sweep, the JSON-RPC        *)
(* dispatcher handleMCPRequest and the command (POST) side of handleSSE.   *)
(*                                                                         *)
(* A handler is a pure operator from (stores, arguments, clock) to the     *)
(* stores it leaves behind and what it returned or threw; an action is one *)
(* whole command interaction: decode, dispatch, handler, frame written.    *)
(* JavaScript's undefined is the string Undefined for string-valued        *)
(* arguments and UndefinedNum for number-valued ones; a JSON-RPC id is     *)
(* kept as its JSON text, so that 0, "" and null stay distinct values.     *)
(***************************************************************************)
EXTENDS Integers, Sequences, FiniteSets, TLC

VARIABLES
    now,                \* Date.now() in milliseconds
    sessions,           \* sequential-thinking: Map<string, ThinkingSession>
    browserSessions,    \* playwright: Map<string, BrowserSession>
    browserUseSessions, \* browser-use: Map<string, BrowserUseSession>
    submitted,          \* history variable: per browser-use session, the
                        \* instructions pushed since the session was created
    response,           \* the last frame a command interaction wrote
    config,             \* the ServerConfig this worker serves
    streams,            \* the SSE streams handleSSE opened, in order of arrival
    requests,           \* RateLimit.requests: Map<string, number[]>
    checks              \* history variable: the calls of RateLimit.check so
                        \* far, each with what it returned

vars == <<now, sessions, browserSessions, browserUseSessions, submitted, response, config,
          streams, requests, checks>>

---------------------------------------------------------------------------
(* Bounds of the model.                                                    *)

\* The clock advances at most this many ticks of TickMs.
MaxTicks == 2

\* A store holds at most this many thinking steps / history entries in all.
MaxStored == 2

\* Natural-language actions submitted in the bounded-history specification.
MaxSubmit == 52

---------------------------------------------------------------------------
(* Program constants.                                                      *)

ST_SESSION_TIMEOUT == 3600000

PW_SESSION_TIMEOUT == 1800000

BU_SESSION_TIMEOUT == 3600000

HISTORY_LIMIT == 50

MIN_KEY_LENGTH == 20

KEY_PREVIEW_LENGTH == 10

DISPATCH_ERROR == -32000

PARSE_ERROR == -32700

---------------------------------------------------------------------------
(* JavaScript values.                                                      *)

Undefined == "undefined"

UndefinedNum == -1

\* !s for a string-valued argument: undefined and "" are falsy.
FalsyStr(s) == s = Undefined \/ s = ""

\* !n for a number-valued argument: undefined and 0 are falsy.
FalsyNum(n) == n = UndefinedNum \/ n = 0

\* Math.max(a, b)
Max(a, b) == IF a >= b THEN a ELSE b

\* Map.set(k, v)
MapSet(m, k, v) == [x \in (DOMAIN m) \cup {k} |-> IF x = k THEN v ELSE m[x]]

\* Map.delete(k) for every k of K
MapDelete(m, K) == [x \in (DOMAIN m) \ K |-> m[x]]

\* new Map()
EmptyMap == [x \in {} |-> x]

\* Array.prototype.slice(start): a negative start counts from the end, and
\* slice(-0) is slice(0), the whole array.
JsSlice(s, start) ==
    LET from == IF start < 0 THEN Max(Len(s) + start, 0) ELSE start
    IN  IF from >= Len(s) THEN <<>> ELSE SubSeq(s, from + 1, Len(s))

\* A substring that keeps the whole string: the fault the truncated-key
\* property guards against.
SubstringKeepsAll(str, n) == str

\* String.prototype.substring(0, n)
Substring0(str, n) == IF Len(str) <= n THEN str ELSE SubSeq(str, 1, n)

\* String.prototype.startsWith(prefix)
StartsWith(str, prefix) ==
    Len(str) >= Len(prefix) /\ SubSeq(str, 1, Len(prefix)) = prefix

\* String.prototype.includes(" ")
HasSpace(str) == \E i \in 1..Len(str) : SubSeq(str, i, i) = " "

\* What a handler hands back to the dispatcher: the stores it leaves, and
\* either the value it returned or the message of the Error it threw.
Returned(S, result) == [store |-> S, threw |-> FALSE, message |-> "", result |-> result]

NoResult == [tool |-> "none"]

Thrown(S, message) == [store |-> S, threw |-> TRUE, message |-> message, result |-> NoResult]

---------------------------------------------------------------------------
(* The arguments object of a tools/call.  One record shape serves every    *)
(* tool; a tool reads the fields it destructures, and a field the client   *)
(* did not send is Undefined / UndefinedNum.                               *)

NoArguments ==
    [sessionId |-> Undefined, thought |-> Undefined, nextThoughtNeeded |-> FALSE,
     thoughtNumber |-> UndefinedNum, totalThoughts |-> UndefinedNum,
     isRevision |-> FALSE, revisesThought |-> UndefinedNum,
     branchFromThought |-> UndefinedNum, branchId |-> Undefined,
     url |-> Undefined, selector |-> Undefined, value |-> Undefined,
     instruction |-> Undefined, apiKey |-> Undefined,
     limit |-> UndefinedNum, olderThanHours |-> UndefinedNum]

\* A destructuring without the default.
SessionIdAsSent(args) == args.sessionId

\* const { sessionId = "default" } = args
SessionIdOf(args) == IF args.sessionId = Undefined THEN "default" ELSE args.sessionId

---------------------------------------------------------------------------
(* Sequential thinking tool-set.                                           *)

\* cleanupOldSessions(): delete every session with lastUpdated < now - 1h.
ST_cleanupOldSessions(store, t) ==
    MapDelete(store, {id \in DOMAIN store : store[id].lastUpdated < t - ST_SESSION_TIMEOUT})

\* A lookup that stamps the session it found as created now.
ST_getOrCreateRestamped(store, sessionId, t) ==
    IF sessionId \in DOMAIN store
    THEN [store[sessionId] EXCEPT !.created = t]
    ELSE [sessionId |-> sessionId, totalThoughts |-> 0, currentThought |-> 0,
          steps |-> <<>>, branches |-> EmptyMap,
          created |-> t, lastUpdated |-> t, isCompleted |-> FALSE]

\* The session the handler works on: sessions.get(sessionId), or a new one.
ST_getOrCreate(store, sessionId, t) ==
    IF sessionId \in DOMAIN store
    THEN store[sessionId]
    ELSE [sessionId |-> sessionId, totalThoughts |-> 0, currentThought |-> 0,
          steps |-> <<>>, branches |-> EmptyMap,
          created |-> t, lastUpdated |-> t, isCompleted |-> FALSE]

\* const step: ThinkingStep = {...}
ST_step(args, t) ==
    [thoughtNumber |-> args.thoughtNumber, thought |-> args.thought, timestamp |-> t,
     isRevision |-> args.isRevision, revisesThought |-> args.revisesThought,
     branchFromThought |-> args.branchFromThought, branchId |-> args.branchId]

\* if (branchId && branchFromThought): the step goes to its branch's log.
ST_isBranchStep(args) == ~FalsyStr(args.branchId) /\ ~FalsyNum(args.branchFromThought)

\* session.branches.get(branchId) || []
ST_branchSteps(session, branchId) ==
    IF branchId \in DOMAIN session.branches THEN session.branches[branchId] ELSE <<>>

\* The branching logic: push the step on the branch's log or on steps.
ST_pushStep(session, args, t) ==
    IF ST_isBranchStep(args)
    THEN [session EXCEPT !.branches =
            MapSet(session.branches, args.branchId,
                   Append(ST_branchSteps(session, args.branchId), ST_step(args, t)))]
    ELSE [session EXCEPT !.steps = Append(session.steps, ST_step(args, t))]

\* Metadata that keeps the latest estimate instead of the highest: the fault
\* the high-water-mark property guards against.
ST_updateMetadataLatestTotal(session, args, t) ==
    [session EXCEPT !.currentThought = args.thoughtNumber,
                    !.totalThoughts = args.totalThoughts,
                    !.lastUpdated = t,
                    !.isCompleted = ~args.nextThoughtNeeded]

\* "Update session metadata"
ST_updateMetadata(session, args, t) ==
    [session EXCEPT !.currentThought = args.thoughtNumber,
                    !.totalThoughts = Max(session.totalThoughts, args.totalThoughts),
                    !.lastUpdated = t,
                    !.isCompleted = ~args.nextThoughtNeeded]

\* IEEE 754 double arithmetic on positive numbers, as far as the progress
\* percentage needs it. A double is [m, e]: the 53 bits of its significand,
\* least significant first, and the exponent of its last place; its value is
\* BitsToNat(m) * 2^e. Long numbers are computed in limbs of 13 bits.
MANTISSA_BITS == 53

LIMB_BITS == 13

RECURSIVE BitsToNat(_)
BitsToNat(bits) ==
    IF bits = <<>> THEN 0 ELSE bits[1] + 2 * BitsToNat(Tail(bits))

\* Bit i (from 1, the least significant) of a number given by its limbs.
LimbBit(limbs, i) ==
    IF i > LIMB_BITS * Len(limbs) THEN 0
    ELSE (limbs[((i - 1) \div LIMB_BITS) + 1] \div 2^((i - 1) % LIMB_BITS)) % 2

\* The limbs of a number given by its bits.
LimbsOf(bits) ==
    [k \in 1..((Len(bits) + LIMB_BITS - 1) \div LIMB_BITS) |->
        BitsToNat(SubSeq(bits, LIMB_BITS * (k - 1) + 1,
                         IF LIMB_BITS * k < Len(bits) THEN LIMB_BITS * k ELSE Len(bits)))]

\* The bits of a positive number given by its limbs, up to its leading one.
BitsOf(limbs) ==
    LET top == CHOOSE i \in 1..LIMB_BITS * Len(limbs) :
                   /\ LimbBit(limbs, i) = 1
                   /\ \A j \in i + 1..LIMB_BITS * Len(limbs) : LimbBit(limbs, j) = 0
    IN  [i \in 1..top |-> LimbBit(limbs, i)]

\* bits + 1: the lowest zero becomes one, the ones below it zero.
Increment(bits) ==
    LET n == Len(bits)
        zero == CHOOSE i \in 1..n + 1 :
                    /\ i = n + 1 \/ bits[i] = 0
                    /\ \A j \in 1..i - 1 : bits[j] = 1
    IN  [i \in 1..(IF zero > n THEN zero ELSE n) |->
            IF i < zero THEN 0 ELSE IF i = zero THEN 1 ELSE bits[i]]

\* limbs * factor, from limb k on, `carry` coming from the limbs below.
RECURSIVE LimbsTimesFrom(_, _, _, _, _)
LimbsTimesFrom(limbs, factor, k, carry, product) ==
    IF k > Len(limbs)
    THEN IF carry = 0 THEN product ELSE Append(product, carry)
    ELSE CHOOSE total \in
            {LimbsTimesFrom(limbs, factor, k + 1, p \div 2^LIMB_BITS,
                            Append(product, p % 2^LIMB_BITS)) :
                p \in {limbs[k] * factor + carry}} : TRUE

\* Round an exact significand to 53 bits, to nearest, ties to even.
RoundToDouble(bits, e) ==
    IF Len(bits) <= MANTISSA_BITS THEN [m |-> bits, e |-> e]
    ELSE LET d == Len(bits) - MANTISSA_BITS
             kept == SubSeq(bits, d + 1, Len(bits))
             sticky == \E i \in 1..d - 1 : bits[i] = 1
             up == bits[d] = 1 /\ (sticky \/ kept[1] = 1)
             m == IF up THEN Increment(kept) ELSE kept
         IN  IF Len(m) > MANTISSA_BITS
             THEN [m |-> Tail(m), e |-> e + d + 1]
             ELSE [m |-> m, e |-> e + d]

\* The next `k` limbs of r / b for r < b below those of `limbs` (least
\* significant first), and the remainder left.
RECURSIVE DivLimbs(_, _, _, _)
DivLimbs(r, b, k, limbs) ==
    IF k = 0 THEN [limbs |-> limbs, rem |-> r]
    ELSE CHOOSE out \in
            {DivLimbs(n % b, b, k - 1, <<n \div b>> \o limbs) :
                n \in {r * 2^LIMB_BITS}} : TRUE

\* a and b scaled by powers of two until 1 <= a / b < 2.
RECURSIVE Normalised(_, _, _)
Normalised(a, b, e) ==
    IF a < b THEN Normalised(2 * a, b, e - 1)
    ELSE IF a >= 2 * b THEN Normalised(a, 2 * b, e + 1)
    ELSE [a |-> a, b |-> b, e |-> e]

\* The double a / b of two positive integers below 2^17.
DoubleDiv(a, b) ==
    LET n == Normalised(a, b, 0)
        q == DivLimbs(n.a - n.b, n.b, (MANTISSA_BITS - 1) \div LIMB_BITS, <<>>)
        exact == [i \in 1..MANTISSA_BITS |->
                     IF i = MANTISSA_BITS THEN 1 ELSE LimbBit(q.limbs, i)]
        up == 2 * q.rem > n.b \/ (2 * q.rem = n.b /\ exact[1] = 1)
        m == IF up THEN Increment(exact) ELSE exact
    IN  IF Len(m) > MANTISSA_BITS
        THEN [m |-> Tail(m), e |-> n.e - MANTISSA_BITS + 2]
        ELSE [m |-> m, e |-> n.e - MANTISSA_BITS + 1]

\* The double x * 100.
DoubleTimes100(x) ==
    RoundToDouble(BitsOf(LimbsTimesFrom(LimbsOf(x.m), 100, 1, 0, <<>>)), x.e)

\* Math.round of a positive double below 2^31: to nearest, ties upwards.
MathRound(x) ==
    LET f == 0 - x.e
        whole == IF f < Len(x.m) THEN BitsToNat(SubSeq(x.m, f + 1, Len(x.m))) ELSE 0
        half == IF f >= 1 /\ f <= Len(x.m) THEN x.m[f] ELSE 0
    IN  whole + half

\* <<n, d, Math.round((n / d) * 100)>> for the small thought numbers,
\* computed once.
SmallProgress ==
    {<<p[1], p[2], MathRound(DoubleTimes100(DoubleDiv(p[1], p[2])))>> : p \in (1..3) \X (1..3)}

\* Math.round((thoughtNumber / totalThoughts) * 100), for positive integers.
ProgressPercentage(thoughtNumber, totalThoughts) ==
    IF \E row \in SmallProgress : row[1] = thoughtNumber /\ row[2] = totalThoughts
    THEN (CHOOSE row \in SmallProgress :
              row[1] = thoughtNumber /\ row[2] = totalThoughts)[3]
    ELSE MathRound(DoubleTimes100(DoubleDiv(thoughtNumber, totalThoughts)))

\* The store after the handler's writes and its trailing cleanup.
ST_storeAfter(store, args, t) ==
    LET sessionId == SessionIdOf(args)
        session == ST_updateMetadata(
                       ST_pushStep(ST_getOrCreate(store, sessionId, t), args, t), args, t)
    IN  ST_cleanupOldSessions(MapSet(store, sessionId, session), t)

\* handleSequentialThinking(args).  Destructuring an absent arguments object
\* throws before anything is read; thought.substring in the log line throws
\* for an undefined thought, after the session was written and the cleanup ran.
ST_handleSequentialThinking(S, hasArgs, args, t) ==
    IF ~hasArgs
    THEN Thrown(S, "Cannot destructure property 'thought' of 'args' as it is undefined.")
    ELSE LET after == ST_storeAfter(S.st, args, t)
             session == after[SessionIdOf(args)]
         IN  IF args.thought = Undefined
             THEN Thrown([S EXCEPT !.st = after],
                         "Cannot read properties of undefined (reading 'substring')")
             ELSE Returned([S EXCEPT !.st = after],
                     [tool |-> "sequential_thinking", status |-> "success",
                      sessionId |-> SessionIdOf(args),
                      currentThought |-> args.thoughtNumber,
                      totalThoughts |-> args.totalThoughts,
                      progressPercentage |->
                          ProgressPercentage(args.thoughtNumber, args.totalThoughts),
                      isCompleted |-> ~args.nextThoughtNeeded,
                      totalSteps |-> Len(session.steps),
                      branches |-> Cardinality(DOMAIN session.branches),
                      hasBranchInfo |-> ~FalsyStr(args.branchId)])

\* getAdditionalInfo(): the health counter, read without a sweep.
ST_getAdditionalInfo(S) == [sessionsCount |-> Cardinality(DOMAIN S.st)]

---------------------------------------------------------------------------
(* Playwright tool-set.                                                    *)

\* The strings new URL(url) accepts, among the urls the model sends.
WellFormedUrls == {"https://a.example/", "https://b.example/"}

\* try { new URL(url) } catch { throw ... }
ValidUrl(url) == url \in WellFormedUrls

\* A sweep that also takes the session idle for exactly the timeout.
PW_cleanupAtTimeout(store, t) ==
    MapDelete(store, {id \in DOMAIN store : store[id].lastUsed <= t - PW_SESSION_TIMEOUT})

\* cleanupOldSessions(): delete every session with lastUsed < now - 30min.
PW_cleanupOldSessions(store, t) ==
    MapDelete(store, {id \in DOMAIN store : store[id].lastUsed < t - PW_SESSION_TIMEOUT})

PW_notFound(sessionId) ==
    "Browser session '" \o sessionId \o "' not found. Please navigate to a page first."

\* A navigateHandler that resolves and stamps the session before it validates
\* the url: the fault the validation-before-mutation property guards against.
PW_navigateHandlerWritesFirst(S, args, t) ==
    LET swept == PW_cleanupOldSessions(S.pw, t)
        sessionId == SessionIdOf(args)
        session == IF sessionId \in DOMAIN swept
                   THEN swept[sessionId]
                   ELSE [sessionId |-> sessionId, created |-> t, lastUsed |-> t,
                         pageUrl |-> Undefined, isActive |-> TRUE]
        stamped == MapSet(swept, sessionId, [session EXCEPT !.lastUsed = t])
    IN  IF FalsyStr(args.url)
        THEN Thrown([S EXCEPT !.pw = stamped], "URL is required for navigation")
        ELSE IF ~ValidUrl(args.url)
        THEN Thrown([S EXCEPT !.pw = stamped], "Invalid URL format provided")
        ELSE Returned([S EXCEPT !.pw = [stamped EXCEPT ![sessionId].pageUrl = args.url]],
                 [tool |-> "playwright_navigate", success |-> TRUE,
                  sessionId |-> sessionId, url |-> args.url])

\* A navigateHandler that keeps one page for all sessions: the fault the
\* property of a session's own pageUrl guards against.
PW_navigateHandlerSharesPage(S, args, t) ==
    LET swept == PW_cleanupOldSessions(S.pw, t)
        sessionId == SessionIdOf(args)
        session == IF sessionId \in DOMAIN swept
                   THEN swept[sessionId]
                   ELSE [sessionId |-> sessionId, created |-> t, lastUsed |-> t,
                         pageUrl |-> Undefined, isActive |-> TRUE]
        updated == MapSet(swept, sessionId, [session EXCEPT !.lastUsed = t])
    IN  IF FalsyStr(args.url)
        THEN Thrown([S EXCEPT !.pw = swept], "URL is required for navigation")
        ELSE IF ~ValidUrl(args.url)
        THEN Thrown([S EXCEPT !.pw = swept], "Invalid URL format provided")
        ELSE Returned([S EXCEPT !.pw = [id \in DOMAIN updated |->
                                           [updated[id] EXCEPT !.pageUrl = args.url]]],
                 [tool |-> "playwright_navigate", success |-> TRUE,
                  sessionId |-> sessionId, url |-> args.url])

\* navigateHandler
PW_navigateHandler(S, args, t) ==
    LET swept == PW_cleanupOldSessions(S.pw, t)
        sessionId == SessionIdOf(args)
        session == IF sessionId \in DOMAIN swept
                   THEN swept[sessionId]
                   ELSE [sessionId |-> sessionId, created |-> t, lastUsed |-> t,
                         pageUrl |-> Undefined, isActive |-> TRUE]
        updated == [session EXCEPT !.lastUsed = t, !.pageUrl = args.url]
    IN  IF FalsyStr(args.url)
        THEN Thrown([S EXCEPT !.pw = swept], "URL is required for navigation")
        ELSE IF ~ValidUrl(args.url)
        THEN Thrown([S EXCEPT !.pw = swept], "Invalid URL format provided")
        ELSE Returned([S EXCEPT !.pw = MapSet(swept, sessionId, updated)],
                 [tool |-> "playwright_navigate", success |-> TRUE,
                  sessionId |-> sessionId, url |-> args.url])

\* A lookup that creates the session it does not find, as navigate does: the
\* fault the lookup-never-creates property guards against.
PW_useOrCreateSession(S, swept, tool, args, t) ==
    LET sessionId == SessionIdOf(args)
        session == IF sessionId \in DOMAIN swept
                   THEN swept[sessionId]
                   ELSE [sessionId |-> sessionId, created |-> t, lastUsed |-> t,
                         pageUrl |-> Undefined, isActive |-> TRUE]
    IN  Returned([S EXCEPT !.pw = MapSet(swept, sessionId, [session EXCEPT !.lastUsed = t])],
            [tool |-> tool, success |-> TRUE, sessionId |-> sessionId,
             currentUrl |-> session.pageUrl])

\* The part click, fill, screenshot, get_text and wait_for_element share once
\* their arguments are accepted: look the session up, stamp it, report.
PW_useSession(S, swept, tool, args, t) ==
    LET sessionId == SessionIdOf(args)
    IN  IF sessionId \notin DOMAIN swept
        THEN Thrown([S EXCEPT !.pw = swept], PW_notFound(sessionId))
        ELSE Returned([S EXCEPT !.pw = [swept EXCEPT ![sessionId].lastUsed = t]],
                 [tool |-> tool, success |-> TRUE, sessionId |-> sessionId,
                  currentUrl |-> swept[sessionId].pageUrl])

\* clickHandler
PW_clickHandler(S, args, t) ==
    LET swept == PW_cleanupOldSessions(S.pw, t)
    IN  IF FalsyStr(args.selector)
        THEN Thrown([S EXCEPT !.pw = swept], "CSS selector is required for clicking")
        ELSE PW_useSession(S, swept, "playwright_click", args, t)

\* fillHandler
PW_fillHandler(S, args, t) ==
    LET swept == PW_cleanupOldSessions(S.pw, t)
    IN  IF FalsyStr(args.selector)
        THEN Thrown([S EXCEPT !.pw = swept], "CSS selector is required for filling")
        ELSE IF FalsyStr(args.value)
        THEN Thrown([S EXCEPT !.pw = swept], "Value is required for filling")
        ELSE PW_useSession(S, swept, "playwright_fill", args, t)

\* screenshotHandler
PW_screenshotHandler(S, args, t) ==
    PW_useSession(S, PW_cleanupOldSessions(S.pw, t), "playwright_screenshot", args, t)

\* getTextHandler
PW_getTextHandler(S, args, t) ==
    PW_useSession(S, PW_cleanupOldSessions(S.pw, t), "playwright_get_text", args, t)

\* waitForElementHandler
PW_waitForElementHandler(S, args, t) ==
    LET swept == PW_cleanupOldSessions(S.pw, t)
    IN  IF FalsyStr(args.selector)
        THEN Thrown([S EXCEPT !.pw = swept], "CSS selector is required for waiting")
        ELSE PW_useSession(S, swept, "playwright_wait_for_element", args, t)

\* A listing whose sweep also runs over the thinking sessions.
PW_listSessionsHandlerSweepsAll(S, t) ==
    LET swept == PW_cleanupOldSessions(S.pw, t)
    IN  Returned([S EXCEPT !.pw = swept, !.st = ST_cleanupOldSessions(S.st, t)],
            [tool |-> "playwright_list_sessions",
             totalSessions |-> Cardinality(DOMAIN swept),
             activeSessions |-> Cardinality({id \in DOMAIN swept : swept[id].isActive}),
             sessions |-> DOMAIN swept])

\* listSessionsHandler: it reads no argument.
PW_listSessionsHandler(S, t) ==
    LET swept == PW_cleanupOldSessions(S.pw, t)
    IN  Returned([S EXCEPT !.pw = swept],
            [tool |-> "playwright_list_sessions",
             totalSessions |-> Cardinality(DOMAIN swept),
             activeSessions |-> Cardinality({id \in DOMAIN swept : swept[id].isActive}),
             sessions |-> DOMAIN swept])

\* getHealthInfo(): sweeps, then counts.
PW_getHealthInfo(S, t) ==
    LET swept == PW_cleanupOldSessions(S.pw, t)
    IN  [store |-> [S EXCEPT !.pw = swept],
         info |-> [sessionsCount |-> Cardinality(DOMAIN swept)]]

---------------------------------------------------------------------------
(* Browser-use tool-set.                                                   *)

\* A validation that checks the prefix and not the length: the fault the
\* credential-shape property guards against.
ValidOpenAIKeyByPrefix(apiKey) ==
    /\ ~HasSpace(apiKey)
    /\ StartsWith(apiKey, "sk-")

\* validateOpenAIKey on the header `Bearer ${apiKey}`: the header must split
\* on spaces into exactly two parts, and the key must start with sk- and
\* be at least 20 characters long.
ValidOpenAIKey(apiKey) ==
    /\ ~HasSpace(apiKey)
    /\ StartsWith(apiKey, "sk-")
    /\ Len(apiKey) >= MIN_KEY_LENGTH

\* The mockActions array, of which Math.random() draws one.
MockActions ==
    <<"navigate_to_url", "click_element", "fill_input",
      "extract_text", "take_screenshot", "scroll_page">>

\* A sweep whose cutoff takes the timeout a hundred times too long: the
\* fault the expiry property guards against.
BU_cleanupWithLateCutoff(store, t) ==
    MapDelete(store,
              {id \in DOMAIN store : store[id].lastUsed < t - BU_SESSION_TIMEOUT * 100})

\* cleanupOldSessions(): delete every session with lastUsed < now - 1h.
BU_cleanupOldSessions(store, t) ==
    MapDelete(store, {id \in DOMAIN store : store[id].lastUsed < t - BU_SESSION_TIMEOUT})

\* The apiKey checks that precede the session lookup, with the message each
\* throws; "" when the key passes.
BU_keyError(apiKey) ==
    IF FalsyStr(apiKey)
    THEN "OpenAI API key is required for browser-use functionality"
    ELSE IF HasSpace(apiKey)
    THEN "Authentication failed: Invalid Authorization format. "
            \o "Required format: Bearer sk-..."
    ELSE IF ~ValidOpenAIKey(apiKey)
    THEN "Authentication failed: Invalid OpenAI API key format. "
            \o "Must start with sk- and be at least 20 characters"
    ELSE ""

\* A push that keeps the first 50 entries, slice(0, 50) for slice(-50): the
\* fault the bounded-history property guards against.
BU_pushHistoryKeepsOldest(history, entry) ==
    LET pushed == Append(history, entry)
    IN  IF Len(pushed) > HISTORY_LIMIT THEN SubSeq(pushed, 1, HISTORY_LIMIT) ELSE pushed

\* conversationHistory.push(entry), then keep the last 50.
BU_pushHistory(history, entry) ==
    LET pushed == Append(history, entry)
    IN  IF Len(pushed) > HISTORY_LIMIT THEN JsSlice(pushed, 0 - HISTORY_LIMIT) ELSE pushed

\* naturalLanguageActionHandler; `drawn` is the mock action Math.random() picks.
\* An entry's result keeps the action taken; its confidence, reasoning and
\* target texts are not modelled.
BU_naturalLanguageActionHandler(S, args, drawn, t) ==
    LET swept == BU_cleanupOldSessions(S.bu, t)
        sessionId == SessionIdOf(args)
        session == IF sessionId \in DOMAIN swept
                   THEN swept[sessionId]
                   ELSE [sessionId |-> sessionId, created |-> t, lastUsed |-> t,
                         currentUrl |-> Undefined, isActive |-> TRUE,
                         apiKey |-> Substring0(args.apiKey, KEY_PREVIEW_LENGTH) \o "...",
                         conversationHistory |-> <<>>]
        entry == [timestamp |-> t, instruction |-> args.instruction, action |-> drawn,
                  result |-> [success |-> TRUE, actionTaken |-> drawn],
                  success |-> TRUE]
        updated == [session EXCEPT
                        !.lastUsed = t,
                        !.conversationHistory = BU_pushHistory(@, entry)]
    IN  IF FalsyStr(args.instruction)
        THEN Thrown([S EXCEPT !.bu = swept], "Natural language instruction is required")
        ELSE IF BU_keyError(args.apiKey) # ""
        THEN Thrown([S EXCEPT !.bu = swept], BU_keyError(args.apiKey))
        ELSE Returned([S EXCEPT !.bu = MapSet(swept, sessionId, updated)],
                 [tool |-> "browseruse_natural_action", success |-> TRUE,
                  sessionId |-> sessionId, instruction |-> args.instruction,
                  action |-> drawn,
                  conversationLength |-> Len(updated.conversationHistory)])

\* A browserUseNavigateHandler that keeps the stored URL when the call
\* carries no url (session.currentUrl = url || session.currentUrl): the
\* fault the navigation property guards against.
BU_navigateKeepsUrl(S, args, t) ==
    LET swept == BU_cleanupOldSessions(S.bu, t)
        sessionId == SessionIdOf(args)
        notFound == "Session '" \o sessionId
                    \o "' not found. Please start with a natural language action first."
    IN  IF FalsyStr(args.url) /\ FalsyStr(args.instruction)
        THEN Thrown([S EXCEPT !.bu = swept],
                    "Either URL or natural language instruction is required")
        ELSE IF BU_keyError(args.apiKey) # ""
        THEN Thrown([S EXCEPT !.bu = swept], BU_keyError(args.apiKey))
        ELSE IF sessionId \notin DOMAIN swept
        THEN Thrown([S EXCEPT !.bu = swept], notFound)
        ELSE Returned([S EXCEPT !.bu = [swept EXCEPT
                            ![sessionId].lastUsed = t,
                            ![sessionId].currentUrl =
                                IF FalsyStr(args.url) THEN @ ELSE args.url]],
                 [tool |-> "browseruse_navigate", success |-> TRUE,
                  sessionId |-> sessionId, currentUrl |-> args.url])

\* browserUseNavigateHandler
BU_browserUseNavigateHandler(S, args, t) ==
    LET swept == BU_cleanupOldSessions(S.bu, t)
        sessionId == SessionIdOf(args)
        notFound == "Session '" \o sessionId
                    \o "' not found. Please start with a natural language action first."
    IN  IF FalsyStr(args.url) /\ FalsyStr(args.instruction)
        THEN Thrown([S EXCEPT !.bu = swept],
                    "Either URL or natural language instruction is required")
        ELSE IF BU_keyError(args.apiKey) # ""
        THEN Thrown([S EXCEPT !.bu = swept], BU_keyError(args.apiKey))
        ELSE IF sessionId \notin DOMAIN swept
        THEN Thrown([S EXCEPT !.bu = swept], notFound)
        ELSE Returned([S EXCEPT !.bu = [swept EXCEPT ![sessionId].lastUsed = t,
                                                     ![sessionId].currentUrl = args.url]],
                 [tool |-> "browseruse_navigate", success |-> TRUE,
                  sessionId |-> sessionId, currentUrl |-> args.url])

\* const { limit = 10 } = args
LimitOf(args) == IF args.limit = UndefinedNum THEN 10 ELSE args.limit

\* A getConversationHistoryHandler that reads the session without stamping
\* it: the fault the last-activity property guards against.
BU_getConversationHistoryUnstamped(S, args, t) ==
    LET swept == BU_cleanupOldSessions(S.bu, t)
        sessionId == SessionIdOf(args)
        history == JsSlice(swept[sessionId].conversationHistory, 0 - LimitOf(args))
    IN  IF sessionId \notin DOMAIN swept
        THEN Thrown([S EXCEPT !.bu = swept], "Session '" \o sessionId \o "' not found")
        ELSE Returned([S EXCEPT !.bu = swept],
                 [tool |-> "browseruse_conversation_history", sessionId |-> sessionId,
                  totalEntries |-> Len(swept[sessionId].conversationHistory),
                  returnedEntries |-> Len(history),
                  history |-> [i \in 1..Len(history) |-> history[i].instruction]])

\* getConversationHistoryHandler
BU_getConversationHistoryHandler(S, args, t) ==
    LET swept == BU_cleanupOldSessions(S.bu, t)
        sessionId == SessionIdOf(args)
        history == JsSlice(swept[sessionId].conversationHistory, 0 - LimitOf(args))
    IN  IF sessionId \notin DOMAIN swept
        THEN Thrown([S EXCEPT !.bu = swept], "Session '" \o sessionId \o "' not found")
        ELSE Returned([S EXCEPT !.bu = [swept EXCEPT ![sessionId].lastUsed = t]],
                 [tool |-> "browseruse_conversation_history", sessionId |-> sessionId,
                  totalEntries |-> Len(swept[sessionId].conversationHistory),
                  returnedEntries |-> Len(history),
                  history |-> [i \in 1..Len(history) |-> history[i].instruction]])

\* listBrowserUseSessionsHandler: it reads no argument.
BU_listBrowserUseSessionsHandler(S, t) ==
    LET swept == BU_cleanupOldSessions(S.bu, t)
    IN  Returned([S EXCEPT !.bu = swept],
            [tool |-> "browseruse_list_sessions",
             totalSessions |-> Cardinality(DOMAIN swept),
             activeSessions |-> Cardinality({id \in DOMAIN swept : swept[id].isActive}),
             sessions |-> DOMAIN swept])

\* getHealthInfo(): sweeps, then counts.
BU_getHealthInfo(S, t) ==
    LET swept == BU_cleanupOldSessions(S.bu, t)
    IN  [store |-> [S EXCEPT !.bu = swept],
         info |-> [sessionsCount |-> Cardinality(DOMAIN swept)]]

---------------------------------------------------------------------------
(* Tool registries and the dispatcher.                                     *)

ST_CONFIG == "sequentialThinkingConfig"
PW_CONFIG == "playwrightConfig"
BU_CONFIG == "browserUseConfig"

\* The standalone sequential-thinking worker, which has a dispatcher of its
\* own: the shared one but for the tool test, name === "sequential_thinking".
SA_CONFIG == "standaloneSequentialThinking"

ToolsSortedByName(cfg) ==
    CASE cfg \in {ST_CONFIG, SA_CONFIG} -> <<"sequential_thinking">>
      [] cfg = PW_CONFIG ->
            <<"playwright_click", "playwright_fill", "playwright_get_text",
              "playwright_list_sessions", "playwright_navigate",
              "playwright_screenshot", "playwright_wait_for_element">>
      [] cfg = BU_CONFIG ->
            <<"browseruse_conversation_history", "browseruse_list_sessions",
              "browseruse_natural_action", "browseruse_navigate">>

\* config.tools, by name, in definition order.
Tools(cfg) ==
    CASE cfg \in {ST_CONFIG, SA_CONFIG} -> <<"sequential_thinking">>
      [] cfg = PW_CONFIG ->
            <<"playwright_navigate", "playwright_click", "playwright_fill",
              "playwright_screenshot", "playwright_get_text",
              "playwright_wait_for_element", "playwright_list_sessions">>
      [] cfg = BU_CONFIG ->
            <<"browseruse_natural_action", "browseruse_navigate",
              "browseruse_conversation_history", "browseruse_list_sessions">>

\* The keys of config.handlers.
HandlerNames(cfg) == {Tools(cfg)[i] : i \in 1..Len(Tools(cfg))}

\* config.handlers is a plain object: a name it does not define is looked up
\* on Object.prototype, where toString is a function.
InheritedNames == {"toString"}

\* The tool names the dispatcher goes on to call: those for which
\* config.handlers[name] is truthy, or the one name the standalone worker tests.
CalledNames(cfg) ==
    IF cfg = SA_CONFIG THEN {"sequential_thinking"}
    ELSE HandlerNames(cfg) \cup InheritedNames

\* Every Playwright / Browser-use handler but the two listings destructures
\* args right after its sweep; that throws for an absent arguments object.
PW_call(name, S, hasArgs, args, t) ==
    IF name = "playwright_list_sessions" THEN PW_listSessionsHandler(S, t)
    ELSE IF ~hasArgs
    THEN Thrown([S EXCEPT !.pw = PW_cleanupOldSessions(S.pw, t)],
                "Cannot destructure property of 'args' as it is undefined.")
    ELSE CASE name = "playwright_navigate" -> PW_navigateHandler(S, args, t)
           [] name = "playwright_click" -> PW_clickHandler(S, args, t)
           [] name = "playwright_fill" -> PW_fillHandler(S, args, t)
           [] name = "playwright_screenshot" -> PW_screenshotHandler(S, args, t)
           [] name = "playwright_get_text" -> PW_getTextHandler(S, args, t)
           [] name = "playwright_wait_for_element" -> PW_waitForElementHandler(S, args, t)

BU_call(name, S, hasArgs, args, drawn, t) ==
    IF name = "browseruse_list_sessions" THEN BU_listBrowserUseSessionsHandler(S, t)
    ELSE IF ~hasArgs
    THEN Thrown([S EXCEPT !.bu = BU_cleanupOldSessions(S.bu, t)],
                "Cannot destructure property of 'args' as it is undefined.")
    ELSE CASE name = "browseruse_natural_action" ->
                BU_naturalLanguageActionHandler(S, args, drawn, t)
           [] name = "browseruse_navigate" -> BU_browserUseNavigateHandler(S, args, t)
           [] name = "browseruse_conversation_history" ->
                BU_getConversationHistoryHandler(S, args, t)

\* await config.handlers[name](args, env)
CallHandler(cfg, name, S, hasArgs, args, drawn, t) ==
    IF name \in InheritedNames THEN Returned(S, [tool |-> "Object.prototype.toString"])
    ELSE CASE cfg \in {ST_CONFIG, SA_CONFIG} ->
                ST_handleSequentialThinking(S, hasArgs, args, t)
           [] cfg = PW_CONFIG -> PW_call(name, S, hasArgs, args, t)
           [] cfg = BU_CONFIG -> BU_call(name, S, hasArgs, args, drawn, t)

ResultEnvelope(id, result) ==
    [kind |-> "result", id |-> id, code |-> 0, message |-> "", result |-> result]

ErrorEnvelope(id, code, message) ==
    [kind |-> "error", id |-> id, code |-> code, message |-> message, result |-> NoResult]

\* handleMCPRequest(request, config, env) for a request that is an object.
\* A dispatcher that takes any envelope with params {name, arguments} for a
\* tool call.
handleMCPRequestByParams(request, cfg, S, drawn, t) ==
    LET method == IF request.hasParams THEN "tools/call" ELSE request.method
    IN  CASE method = "initialize" ->
                [store |-> S, envelope |-> ResultEnvelope(request.id, [tool |-> "initialize"])]
          [] method = "tools/list" ->
                [store |-> S,
                 envelope |-> ResultEnvelope(request.id,
                                  [tool |-> "tools/list", tools |-> Tools(cfg)])]
          [] method = "tools/call" ->
                IF request.name \notin CalledNames(cfg)
                THEN [store |-> S,
                      envelope |-> ErrorEnvelope(request.id, DISPATCH_ERROR,
                                                 "Unknown tool: " \o request.name)]
                ELSE LET out == CallHandler(cfg, request.name, S, request.hasArgs,
                                            request.args, drawn, t)
                     IN  [store |-> out.store,
                          envelope |-> IF out.threw
                                       THEN ErrorEnvelope(request.id, DISPATCH_ERROR,
                                                          out.message)
                                       ELSE ResultEnvelope(request.id, out.result)]
          [] OTHER ->
                [store |-> S,
                 envelope |-> ErrorEnvelope(request.id, DISPATCH_ERROR,
                                            "Unknown method: " \o request.method)]

handleMCPRequest(request, cfg, S, drawn, t) ==
    CASE request.method = "initialize" ->
            [store |-> S, envelope |-> ResultEnvelope(request.id, [tool |-> "initialize"])]
      [] request.method = "tools/list" ->
            [store |-> S,
             envelope |-> ResultEnvelope(request.id, [tool |-> "tools/list", tools |-> Tools(cfg)])]
      [] request.method = "tools/call" ->
            IF ~request.hasParams
            THEN [store |-> S,
                  envelope |-> ErrorEnvelope(request.id, DISPATCH_ERROR,
                      "Cannot destructure property 'name' of 'params' as it is undefined.")]
            ELSE IF request.name \notin CalledNames(cfg)
            THEN [store |-> S,
                  envelope |-> ErrorEnvelope(request.id, DISPATCH_ERROR,
                                             "Unknown tool: " \o request.name)]
            ELSE LET out == CallHandler(cfg, request.name, S, request.hasArgs,
                                        request.args, drawn, t)
                 IN  [store |-> out.store,
                      envelope |-> IF out.threw
                                   THEN ErrorEnvelope(request.id, DISPATCH_ERROR, out.message)
                                   ELSE ResultEnvelope(request.id, out.result)]
      [] OTHER ->
            [store |-> S,
             envelope |-> ErrorEnvelope(request.id, DISPATCH_ERROR,
                                        "Unknown method: " \o request.method)]

\* The POST branch of handleSSE: JSON.parse(body), dispatch, write one frame.
\* A body that is not JSON, and the JSON value null (whose destructuring
\* throws before the dispatcher's try), end in the catch: code -32700, id
\* null, and the message of the error caught.
handleSSEDispatchesUndecoded(body, cfg, S, drawn, t) ==
    handleMCPRequest([body EXCEPT !.kind = "object"], cfg, S, drawn, t)

handleSSE(body, cfg, S, drawn, t) ==
    IF body.kind = "malformed"
    THEN [store |-> S,
          envelope |-> ErrorEnvelope("null", PARSE_ERROR, "Unexpected token in JSON")]
    ELSE IF body.kind = "null"
    THEN [store |-> S,
          envelope |-> ErrorEnvelope("null", PARSE_ERROR,
                           "Cannot destructure property 'method' of 'request' as it is null.")]
    ELSE handleMCPRequest(body, cfg, S, drawn, t)

---------------------------------------------------------------------------
(* The first, single-file worker: its handleSSE dispatches by hand and     *)
(* answers every failure, a body that does not parse included, with        *)
(* -32000 and `id: mcpRequest?.id || null`.                                *)

LEGACY_CONFIG == "legacySequentialThinking"

\* The ids for which `id || null` is null: absent, null, 0, "" and false.
FalsyIds == {Undefined, "null", "0", "\"\"", "false"}

\* mcpRequest?.id || null
LegacyErrorId(id) == IF id \in FalsyIds THEN "null" ELSE id

legacyHandleSSE(body, S, t) ==
    IF body.kind = "malformed"
    THEN [store |-> S,
          envelope |-> ErrorEnvelope("null", DISPATCH_ERROR, "Unexpected token in JSON")]
    ELSE IF body.kind = "null"
    THEN [store |-> S,
          envelope |-> ErrorEnvelope("null", DISPATCH_ERROR,
                           "Cannot read properties of null (reading 'method')")]
    ELSE CASE body.method = "tools/list" ->
                [store |-> S,
                 envelope |-> ResultEnvelope(body.id,
                                  [tool |-> "tools/list", tools |-> Tools(ST_CONFIG)])]
           [] body.method = "tools/call" ->
                IF ~body.hasParams
                THEN [store |-> S,
                      envelope |-> ErrorEnvelope(LegacyErrorId(body.id), DISPATCH_ERROR,
                          "Cannot destructure property 'name' of 'params' as it is undefined.")]
                ELSE IF body.name # "sequential_thinking"
                THEN [store |-> S,
                      envelope |-> ErrorEnvelope(LegacyErrorId(body.id), DISPATCH_ERROR,
                                                 "Unknown tool: " \o body.name)]
                ELSE LET out == ST_handleSequentialThinking(S, body.hasArgs, body.args, t)
                     IN  [store |-> out.store,
                          envelope |-> IF out.threw
                                       THEN ErrorEnvelope(LegacyErrorId(body.id),
                                                          DISPATCH_ERROR, out.message)
                                       ELSE ResultEnvelope(body.id, out.result)]
           [] OTHER ->
                [store |-> S,
                 envelope |-> ErrorEnvelope(LegacyErrorId(body.id), DISPATCH_ERROR,
                                            "Method not found: " \o body.method)]

---------------------------------------------------------------------------
(* State, and what bounds it.                                              *)

\* The three module-level Maps.
Stores == [st |-> sessions, pw |-> browserSessions, bu |-> browserUseSessions]

RECURSIVE SumOver(_, _)
SumOver(f, D) ==
    IF D = {} THEN 0
    ELSE LET x == CHOOSE y \in D : TRUE
         IN  f[x] + SumOver(f, D \ {x})

\* steps.length plus the lengths of all branch logs of one thinking session.
ST_logLength(session) ==
    Len(session.steps)
    + SumOver([b \in DOMAIN session.branches |-> Len(session.branches[b])],
              DOMAIN session.branches)

\* The thinking steps and history entries the stores hold in all.
Stored(S) ==
    SumOver([id \in DOMAIN S.st |-> ST_logLength(S.st[id])], DOMAIN S.st)
    + SumOver([id \in DOMAIN S.bu |-> Len(S.bu[id].conversationHistory)], DOMAIN S.bu)

\* What the state keeps of a frame: the envelope without its result payload.
Header(envelope) ==
    [kind |-> envelope.kind, id |-> envelope.id,
     code |-> envelope.code, message |-> envelope.message,
     sessionsCount |-> UndefinedNum]

NoResponse ==
    [kind |-> "none", id |-> Undefined, code |-> 0, message |-> "",
     sessionsCount |-> UndefinedNum]

Configs == {ST_CONFIG, PW_CONFIG, BU_CONFIG, SA_CONFIG, LEGACY_CONFIG}

\* A worker starts with empty Maps and serves one configuration.
InitWith(cfgs) ==
    /\ now = 0
    /\ sessions = EmptyMap
    /\ browserSessions = EmptyMap
    /\ browserUseSessions = EmptyMap
    /\ submitted = EmptyMap
    /\ response = NoResponse
    /\ config \in cfgs
    /\ streams = <<>>
    /\ requests = EmptyMap
    /\ checks = <<>>

\* SESSION_TIMEOUT of the tool-set a configuration serves.
SessionTimeout(cfg) ==
    CASE cfg = PW_CONFIG -> PW_SESSION_TIMEOUT
      [] cfg = BU_CONFIG -> BU_SESSION_TIMEOUT
      [] OTHER -> ST_SESSION_TIMEOUT

\* One tick of the model's clock: the served tool-set's timeout, so that a
\* session is idle for less than, exactly, or more than its timeout.
TickMs == SessionTimeout(config)

\* Time passes between two interactions.
Tick ==
    /\ now < MaxTicks * TickMs
    /\ now' = now + TickMs
    /\ UNCHANGED <<sessions, browserSessions, browserUseSessions, submitted, response, config,
                   streams,
                   requests, checks>>

\* The history variable after a command: a session's list starts anew when
\* the session is created, grows with each natural action that returned,
\* and goes when the session goes. A session past the timeout that is still
\* stored as it was has met no sweep and is the same session.
SubmittedAfter(body, envelope, after, t) ==
    LET swept == BU_cleanupOldSessions(browserUseSessions, t)
        pushed == /\ envelope.kind = "result"
                  /\ envelope.result.tool = "browseruse_natural_action"
        same(id) == id \in DOMAIN browserUseSessions /\ after[id] = browserUseSessions[id]
        kept(id) == IF id \in DOMAIN swept \/ same(id) THEN submitted[id] ELSE <<>>
    IN  [id \in DOMAIN after |->
            IF pushed /\ id = envelope.result.sessionId
            THEN Append(kept(id), body.args.instruction)
            ELSE kept(id)]

\* One command interaction: POST /sse with `body`; `drawn` is the mock action
\* Math.random() picks should the call reach the natural-language handler.
Post(body, drawn, bound) ==
    \E out \in {IF config = LEGACY_CONFIG
                THEN legacyHandleSSE(body, Stores, now)
                ELSE handleSSE(body, config, Stores, drawn, now)} :
        /\ Stored(out.store) <= bound
        /\ sessions' = out.store.st
        /\ browserSessions' = out.store.pw
        /\ browserUseSessions' = out.store.bu
        /\ submitted' = SubmittedAfter(body, out.envelope, out.store.bu, now)
        /\ response' = Header(out.envelope)
        /\ UNCHANGED <<now, config, streams,
                       requests, checks>>

\* GET /health: createHealthResponse(name, version, getHealthInfo()); the
\* Playwright and Browser-use getHealthInfo sweep, the thinking one does not.
Health ==
    \E out \in {CASE config = PW_CONFIG -> PW_getHealthInfo(Stores, now)
                  [] config = BU_CONFIG -> BU_getHealthInfo(Stores, now)
                  [] OTHER -> [store |-> Stores, info |-> ST_getAdditionalInfo(Stores)]} :
        /\ sessions' = out.store.st
        /\ browserSessions' = out.store.pw
        /\ browserUseSessions' = out.store.bu
        /\ submitted' = [id \in DOMAIN out.store.bu |-> submitted[id]]
        /\ response' = [NoResponse EXCEPT !.kind = "health",
                                          !.sessionsCount = out.info.sessionsCount]
        /\ UNCHANGED <<now, config, streams,
                       requests, checks>>

---------------------------------------------------------------------------
(* The requests a client sends.                                            *)

\* An envelope {jsonrpc, id, method} without params.
Request(id, method) ==
    [kind |-> "object", id |-> id, method |-> method, hasParams |-> FALSE,
     name |-> Undefined, hasArgs |-> FALSE, args |-> NoArguments]

\* tools/call with params {name, arguments}.
ToolCall(id, name, args) ==
    [Request(id, "tools/call") EXCEPT
        !.hasParams = TRUE, !.name = name, !.hasArgs = TRUE, !.args = args]

\* tools/call with params {name} and no arguments object.
ToolCallNoArguments(id, name) ==
    [Request(id, "tools/call") EXCEPT !.hasParams = TRUE, !.name = name]

SessionIdArgs == {Undefined, "a"}

\* A well-formed first thought, and the ways the model departs from it one
\* argument at a time: no thought text, the last thought, a later thought, a
\* lower estimate, and a branch id with a positive, an absent and a zero
\* branchFromThought.
FirstThought(sid) ==
    [NoArguments EXCEPT !.sessionId = sid, !.thought = "think", !.nextThoughtNeeded = TRUE,
                        !.thoughtNumber = 1, !.totalThoughts = 2]

ThoughtsFrom(a) ==
    {a,
     [a EXCEPT !.thought = Undefined],
     [a EXCEPT !.thoughtNumber = 2, !.nextThoughtNeeded = FALSE],
     [a EXCEPT !.totalThoughts = 1],
     [a EXCEPT !.branchId = "B", !.branchFromThought = 1],
     [a EXCEPT !.branchId = "B"],
     [a EXCEPT !.branchId = "B", !.branchFromThought = 0]}

ThinkingArguments == UNION {ThoughtsFrom(FirstThought(sid)) : sid \in SessionIdArgs}

ThinkingBodies ==
    {ToolCall("1", "sequential_thinking", a) : a \in ThinkingArguments}
    \cup {ToolCallNoArguments("1", "sequential_thinking")}

UrlArgs == {Undefined, "not a url"} \cup WellFormedUrls

NavigateArguments ==
    {[NoArguments EXCEPT !.sessionId = sid, !.url = u] : sid \in SessionIdArgs, u \in UrlArgs}

\* { sessionId } alone, with a selector, and with a selector and a value.
SessionArguments == {[NoArguments EXCEPT !.sessionId = sid] : sid \in SessionIdArgs}

SelectorArguments == {[a EXCEPT !.selector = "#go"] : a \in SessionArguments}

ValueArguments == {[a EXCEPT !.value = "text"] : a \in SelectorArguments}

PlaywrightBodies ==
    {ToolCall("1", "playwright_navigate", a) : a \in NavigateArguments}
    \cup {ToolCall("1", name, a) :
            name \in {"playwright_click", "playwright_wait_for_element"},
            a \in SessionArguments \cup SelectorArguments}
    \cup {ToolCall("1", "playwright_fill", a) :
            a \in SessionArguments \cup SelectorArguments \cup ValueArguments}
    \cup {ToolCall("1", name, a) :
            name \in {"playwright_screenshot", "playwright_get_text"},
            a \in SessionArguments}
    \cup {ToolCall("1", "playwright_list_sessions", NoArguments),
          ToolCallNoArguments("1", "playwright_click")}

GoodKey == "sk-0123456789abcdefghij"

ApiKeyArgs == {Undefined, "sk-short", GoodKey}

\* A second key of a good shape, for calls on a session another key created.
OtherKey == "sk-zyxwvutsrqponmlkjihg"

\* The instruction sent under the second key.
OtherInstruction == "type the name"

\* Keys of a bad shape: empty, without the prefix, and one character short.
BadKeys == {"", "pk-0123456789abcdefghij", "sk-0123456789abcdef"}

Instruction == "click the button"

\* A natural action with its instruction and each key, and one without
\* instruction under a good key.
NaturalActionArguments ==
    {[NoArguments EXCEPT !.sessionId = sid, !.instruction = Instruction, !.apiKey = k] :
        sid \in SessionIdArgs, k \in ApiKeyArgs \cup BadKeys}
    \cup {[NoArguments EXCEPT !.sessionId = "a", !.instruction = OtherInstruction,
                              !.apiKey = OtherKey]}
    \cup {[NoArguments EXCEPT !.sessionId = sid, !.apiKey = GoodKey] : sid \in SessionIdArgs}

\* A navigation by url under each key, one by instruction, one by neither.
BrowserUseNavigateArguments ==
    {[NoArguments EXCEPT !.sessionId = sid, !.url = "https://a.example/", !.apiKey = k] :
        sid \in SessionIdArgs, k \in ApiKeyArgs}
    \cup {[NoArguments EXCEPT !.sessionId = sid, !.instruction = Instruction,
                              !.apiKey = GoodKey] : sid \in SessionIdArgs}
    \cup {[NoArguments EXCEPT !.sessionId = sid, !.apiKey = GoodKey] : sid \in SessionIdArgs}

HistoryArguments ==
    {[NoArguments EXCEPT !.sessionId = sid, !.limit = n] :
        sid \in SessionIdArgs, n \in {UndefinedNum, 0, 1}}

BrowserUseBodies ==
    {ToolCall("1", "browseruse_natural_action", a) : a \in NaturalActionArguments}
    \cup {ToolCall("1", "browseruse_navigate", a) : a \in BrowserUseNavigateArguments}
    \cup {ToolCall("1", "browseruse_conversation_history", a) : a \in HistoryArguments}
    \cup {ToolCall("1", "browseruse_list_sessions", NoArguments),
          ToolCallNoArguments("1", "browseruse_navigate")}

Bodies(cfg) ==
    CASE cfg = PW_CONFIG -> PlaywrightBodies
      [] cfg = BU_CONFIG -> BrowserUseBodies
      [] OTHER -> ThinkingBodies

\* The mock actions the model lets Math.random() draw: the first and the last.
Draws == {MockActions[1], MockActions[Len(MockActions)]}

\* Math.random() matters to a call only if it reaches the mock action pick.
DrawsFor(body) ==
    IF body.kind = "object" /\ body.name = "browseruse_natural_action" THEN Draws
    ELSE {MockActions[1]}

---------------------------------------------------------------------------
(* The specification: one worker serving one of the three tool-sets, its   *)
(* clients' commands and health checks, and the passing of time.           *)

Init == InitWith({ST_CONFIG, PW_CONFIG, BU_CONFIG})

Command == \E body \in Bodies(config) : \E drawn \in DrawsFor(body) : Post(body, drawn, MaxStored)

Next == Tick \/ Command \/ Health

Spec == Init /\ [][Next]_vars

---------------------------------------------------------------------------
(* The history specification: clients of a Browser-use worker submit       *)
(* natural-language actions, numbered per session, and read the history.   *)
(* The clock stands still, so that no session expires underway.            *)

\* The k-th instruction a client submits to a session.
InstructionAt(k) == "do " \o ToString(k)

\* All natural actions pushed so far, over the sessions in the store.
Pushed(sub) == SumOver([id \in DOMAIN sub |-> Len(sub[id])], DOMAIN sub)

\* The next natural action on session `sid`; the draws run through mockActions.
SubmitAction ==
    \E sid \in SessionIdArgs :
        LET id == SessionIdOf([NoArguments EXCEPT !.sessionId = sid])
            k == IF id \in DOMAIN submitted THEN Len(submitted[id]) + 1 ELSE 1
            args == [NoArguments EXCEPT !.sessionId = sid, !.apiKey = GoodKey,
                                        !.instruction = InstructionAt(k)]
        IN  /\ Post(ToolCall("1", "browseruse_natural_action", args),
                    MockActions[(k % Len(MockActions)) + 1], MaxSubmit)
            /\ Pushed(submitted') <= MaxSubmit

ReadHistory ==
    \E a \in HistoryArguments :
        Post(ToolCall("1", "browseruse_conversation_history", a), MockActions[1], MaxSubmit)

InitHistory == InitWith({BU_CONFIG})

NextHistory == SubmitAction \/ ReadHistory

SpecHistory == InitHistory /\ [][NextHistory]_vars

---------------------------------------------------------------------------
(* The protocol specification: every worker, the first single-file one     *)
(* included, is sent envelopes of every method under every kind of id, and *)
(* bodies that are no envelope.                                            *)

\* JSON-RPC ids as JSON text: a number, zero, the empty string, null, a
\* string, and no id at all.
Ids == {"1", "0", "\"\"", "null", "\"x\"", Undefined}

\* A body that is not JSON, and the JSON text null.
MalformedBody == [Request(Undefined, Undefined) EXCEPT !.kind = "malformed"]

NullBody == [Request(Undefined, Undefined) EXCEPT !.kind = "null"]

\* A call the served tool-set accepts, and one it rejects or that throws.
AcceptedCall(cfg, id) ==
    CASE cfg = PW_CONFIG ->
            ToolCall(id, "playwright_navigate",
                     [NoArguments EXCEPT !.sessionId = "a", !.url = "https://a.example/"])
      [] cfg = BU_CONFIG ->
            ToolCall(id, "browseruse_natural_action",
                     [NoArguments EXCEPT !.sessionId = "a", !.apiKey = GoodKey,
                                         !.instruction = Instruction])
      [] OTHER -> ToolCall(id, "sequential_thinking", FirstThought("a"))

RejectedCall(cfg, id) ==
    CASE cfg = PW_CONFIG ->
            ToolCall(id, "playwright_click", [NoArguments EXCEPT !.sessionId = "a"])
      [] cfg = BU_CONFIG ->
            ToolCall(id, "browseruse_navigate", [NoArguments EXCEPT !.sessionId = "a"])
      [] OTHER ->
            ToolCall(id, "sequential_thinking",
                     [FirstThought("a") EXCEPT !.thought = Undefined])

\* The id of the envelopes that carry params their method does not read.
ParamsId == "7"

\* An initialize or tools/list envelope with the params of a tool call.
WithParams(cfg, method) == [AcceptedCall(cfg, ParamsId) EXCEPT !.method = method]

ProtocolBodies(cfg) ==
    UNION {{Request(id, "initialize"), Request(id, "tools/list"),
            Request(id, "resources/list"), Request(id, "tools/call"),
            ToolCall(id, "no_such_tool", NoArguments),
            ToolCall(id, "toString", NoArguments),
            ToolCallNoArguments(id, AcceptedCall(cfg, id).name),
            AcceptedCall(cfg, id), RejectedCall(cfg, id)} : id \in Ids}
    \cup {MalformedBody, NullBody}
    \cup {WithParams(cfg, method) : method \in {"initialize", "tools/list"}}

ProtocolCommand ==
    \E body \in ProtocolBodies(config) : \E drawn \in DrawsFor(body) :
        Post(body, drawn, MaxStored)

InitProtocol == InitWith(Configs)

NextProtocol == Tick \/ ProtocolCommand

SpecProtocol == InitProtocol /\ [][NextProtocol]_vars

---------------------------------------------------------------------------
(* Vocabulary of the properties.                                           *)

SessionIds == {SessionIdOf(a) : a \in SessionArguments}

\* The Map of the tool-set this worker serves.
Store ==
    CASE config = PW_CONFIG -> browserSessions
      [] config = BU_CONFIG -> browserUseSessions
      [] OTHER -> sessions

\* When a stored session was last active.
LastActive(session) ==
    IF config \in {PW_CONFIG, BU_CONFIG} THEN session.lastUsed ELSE session.lastUpdated

\* The session's last activity is more than its tool-set's timeout in the past.
IdleTooLong(session) == now - LastActive(session) > SessionTimeout(config)

\* P holds of every command of `bodies` this step can be.
EveryCall(bodies, P(_)) ==
    \A body \in bodies : \A drawn \in DrawsFor(body) :
        P(body) \/ ~Post(body, drawn, MaxStored)

\* The command is a tool call that names a session (the listings read none).
NamesSession(body) ==
    /\ body.kind = "object"
    /\ body.method = "tools/call"
    /\ body.hasArgs
    /\ body.name \notin {"playwright_list_sessions", "browseruse_list_sessions"}

\* Session b is there after the step iff it was before, with every field as before.
Untouched(b) ==
    /\ b \in DOMAIN Store <=> b \in DOMAIN Store'
    /\ b \in DOMAIN Store => Store'[b] = Store[b]

\* What a client can find of the store: the Playwright and Browser-use
\* handlers and health checks sweep before they read, the thinking ones read
\* the Map as it is.
VisibleStore ==
    CASE config = PW_CONFIG -> PW_cleanupOldSessions(browserSessions, now)
      [] config = BU_CONFIG -> BU_cleanupOldSessions(browserUseSessions, now)
      [] OTHER -> sessions

\* Session b can be found after the step iff it could before, with every
\* field as before.
VisiblyUntouched(b) ==
    /\ b \in DOMAIN VisibleStore <=> b \in DOMAIN VisibleStore'
    /\ b \in DOMAIN VisibleStore => VisibleStore'[b] = VisibleStore[b]

\* The served tool-set's Map within the stores a handler leaves.
StoreOf(S) ==
    CASE config = PW_CONFIG -> S.pw
      [] config = BU_CONFIG -> S.bu
      [] OTHER -> S.st

\* The stored sessions that are not idle for too long.
Alive == {id \in DOMAIN Store : ~IdleTooLong(Store[id])}

\* The tools that work on a session they do not create, and the listings.
LookupTools ==
    {"playwright_click", "playwright_fill", "playwright_screenshot",
     "playwright_get_text", "playwright_wait_for_element",
     "browseruse_navigate", "browseruse_conversation_history"}

ListTools == {"playwright_list_sessions", "browseruse_list_sessions"}

\* The session count GET /health would report in this state.
HealthCount ==
    CASE config = PW_CONFIG -> PW_getHealthInfo(Stores, now).info.sessionsCount
      [] config = BU_CONFIG -> BU_getHealthInfo(Stores, now).info.sessionsCount
      [] OTHER -> ST_getAdditionalInfo(Stores).sessionsCount

\* s is an initial segment of t.
IsPrefix(s, t) == Len(s) <= Len(t) /\ SubSeq(t, 1, Len(s)) = s

---------------------------------------------------------------------------
(* Session isolation.                                                      *)

IsolatedCall(body) ==
    NamesSession(body) =>
        \A b \in SessionIds \ {SessionIdOf(body.args)} : VisiblyUntouched(b)

\* C1: a tool call on session a leaves every other session b of the store as
\* a client can find it: there or not, and with the same fields.
C1_SessionIsolation == [][EveryCall(Bodies(config), IsolatedCall)]_vars

---------------------------------------------------------------------------
(* Expiry.                                                                 *)

\* What command `body` would do to a session `id` that is idle for too long,
\* were the session hidden: a call that may create starts a new session, a
\* lookup fails, a listing leaves it out.
HiddenFrom(id, body, out) ==
    /\ id \in DOMAIN StoreOf(out.store) => StoreOf(out.store)[id].created = now
    /\ /\ body.name \in LookupTools
       /\ body.hasArgs
       /\ SessionIdOf(body.args) = id
       => out.envelope.kind = "error"
    /\ body.name \in ListTools /\ out.envelope.kind = "result"
       => id \notin out.envelope.result.sessions

ExpiredIsAbsent ==
    \A id \in DOMAIN Store \ Alive :
        /\ HealthCount = Cardinality(Alive)
        /\ \A body \in Bodies(config) : \A drawn \in DrawsFor(body) :
              HiddenFrom(id, body, handleSSE(body, config, Stores, drawn, now))

\* C2: a Playwright or Browser-use session last used more than the timeout
\* ago is absent for every call and health check, whether or not a sweep has
\* removed it from the Map: a lookup of it fails, a listing and the health
\* count leave it out, and a creating call starts a new session under its id.
C2_ExpiredIsAbsent == config \in {PW_CONFIG, BU_CONFIG} => ExpiredIsAbsent

\* A session idle for too long is still in the Map, beside one that is not.
C2_Witness ==
    /\ config \in {PW_CONFIG, BU_CONFIG}
    /\ Alive # {}
    /\ DOMAIN Store \ Alive # {}

\* C3: a thinking session last updated more than one hour ago is absent for
\* every call and for the health count: a sequential_thinking call naming it
\* starts a new session, and the count leaves it out.
C3_ExpiredThinkingIsAbsent == config = ST_CONFIG => ExpiredIsAbsent

---------------------------------------------------------------------------
(* Errors and the store.                                                   *)

\* C4: a sequential_thinking call answered with an error envelope leaves the
\* thinking sessions exactly as they were.
C4_NoPartialWrites ==
    [][config = ST_CONFIG /\ now' = now /\ response'.kind = "error"
        => sessions' = sessions]_vars

\* The messages of the argument checks of the Playwright and Browser-use handlers.
ValidationMessages ==
    {"URL is required for navigation", "Invalid URL format provided",
     "CSS selector is required for clicking", "CSS selector is required for filling",
     "Value is required for filling", "CSS selector is required for waiting",
     "Natural language instruction is required",
     "Either URL or natural language instruction is required",
     BU_keyError(Undefined), BU_keyError("sk-short")}

\* The step is a Playwright or Browser-use call rejected by an argument check.
Rejected ==
    /\ config \in {PW_CONFIG, BU_CONFIG}
    /\ now' = now
    /\ response'.kind = "error"
    /\ response'.message \in ValidationMessages

\* C5 as stated: a call rejected for a missing or malformed argument leaves
\* the set of stored sessions and every field of every session as they were.
C5_ValidationBeforeMutation == [][Rejected => Store' = Store]_vars

\* Every session is as it was, but that those idle for too long are gone.
OnlySwept ==
    \A id \in SessionIds :
        IF id \in DOMAIN Store \ Alive THEN id \notin DOMAIN Store' ELSE Untouched(id)

\* C5 as the code has it: a rejected call creates and modifies no session,
\* and removes exactly the sessions last used more than the timeout ago.
C5_RejectedCallOnlySweeps == [][Rejected => OnlySwept]_vars

\* A call was rejected while the store held a session.
C5_Witness ==
    /\ config \in {PW_CONFIG, BU_CONFIG}
    /\ response.kind = "error"
    /\ response.message \in ValidationMessages
    /\ Store # EmptyMap

\* The command is a lookup-only tool called with a session id not in the store.
MissingSession(body) ==
    /\ NamesSession(body)
    /\ body.name \in LookupTools
    /\ SessionIdOf(body.args) \notin DOMAIN Store

NotFoundMessages(sessionId) ==
    {PW_notFound(sessionId),
     "Session '" \o sessionId
        \o "' not found. Please start with a natural language action first.",
     "Session '" \o sessionId \o "' not found"}

AnsweredNotFound(sessionId) ==
    /\ response'.kind = "error"
    /\ response'.message \in NotFoundMessages(sessionId)

\* The arguments pass the checks the handler makes before it looks the session up.
ArgumentsPass(body) ==
    CASE body.name \in {"playwright_click", "playwright_wait_for_element"} ->
            ~FalsyStr(body.args.selector)
      [] body.name = "playwright_fill" ->
            ~FalsyStr(body.args.selector) /\ ~FalsyStr(body.args.value)
      [] body.name = "browseruse_navigate" ->
            /\ ~(FalsyStr(body.args.url) /\ FalsyStr(body.args.instruction))
            /\ BU_keyError(body.args.apiKey) = ""
      [] OTHER -> TRUE

MissingSessionLeavesStore(body) ==
    MissingSession(body) /\ ArgumentsPass(body) =>
        /\ AnsweredNotFound(SessionIdOf(body.args))
        /\ Store' = Store

\* C6 as stated: a lookup-only tool called (with arguments it accepts) with a
\* session id that is not in the store answers 'session not found' and
\* leaves the store unchanged.
C6_LookupNeverCreates == [][EveryCall(Bodies(config), MissingSessionLeavesStore)]_vars

MissingSessionNotCreated(body) ==
    MissingSession(body) /\ ArgumentsPass(body) =>
        /\ AnsweredNotFound(SessionIdOf(body.args))
        /\ SessionIdOf(body.args) \notin DOMAIN Store'
        /\ OnlySwept

\* C6 as the code has it: a lookup-only tool called with arguments that pass
\* its argument checks and a session id that is not in the store answers
\* 'session not found', creates no session, and changes the store only by
\* removing the sessions last used more than the timeout ago.
C6_LookupNeverCreatesButSweeps ==
    [][EveryCall(Bodies(config), MissingSessionNotCreated)]_vars

\* A lookup of a session that is not there was answered, beside a stored session.
C6_Witness ==
    /\ config \in {PW_CONFIG, BU_CONFIG}
    /\ Store # EmptyMap
    /\ \E id \in SessionIds \ DOMAIN Store :
          response.kind = "error" /\ response.message \in NotFoundMessages(id)

---------------------------------------------------------------------------
(* The logs of a thinking session.                                         *)

\* C7: no step that carries a branchId is in the main steps sequence of a
\* thinking session.
C7_BranchStepsNotInMain ==
    \A id \in DOMAIN sessions :
        \A i \in 1..Len(sessions[id].steps) :
            sessions[id].steps[i].branchId = Undefined

\* Every log of a session that stays in the store keeps its entries, in place.
LogsGrow ==
    \A id \in DOMAIN sessions \cap DOMAIN sessions' :
        /\ IsPrefix(sessions[id].steps, sessions'[id].steps)
        /\ \A b \in DOMAIN sessions[id].branches :
              /\ b \in DOMAIN sessions'[id].branches
              /\ IsPrefix(sessions[id].branches[b], sessions'[id].branches[b])

\* A step submitted with a branchId becomes the last entry of that branch's log.
BranchStepAppended(body) ==
    NamesSession(body) /\ body.args.branchId # Undefined =>
        LET id == SessionIdOf(body.args)
            before == IF id \in DOMAIN sessions
                      THEN ST_branchSteps(sessions[id], body.args.branchId)
                      ELSE <<>>
        IN  /\ id \in DOMAIN sessions'
            /\ ST_branchSteps(sessions'[id], body.args.branchId)
                  = Append(before, ST_step(body.args, now))

\* C8: a step submitted with a branchId is appended to the end of that
\* branch's log, so that the log is in submission order, and no call removes
\* or reorders an entry of steps or of a branch of a session that stays.
C8_LogsAppendOnly ==
    [][config = ST_CONFIG => LogsGrow /\ EveryCall(ThinkingBodies, BranchStepAppended)]_vars

---------------------------------------------------------------------------
(* The conversation history of a Browser-use session.                      *)

\* The instructions of a history, in the order the entries are stored.
InstructionsOf(history) == [i \in 1..Len(history) |-> history[i].instruction]

\* C9: a session's conversationHistory never holds more than 50 entries;
\* after n natural actions it holds min(n, 50) entries, and they are the
\* last min(n, 50) instructions submitted, in submission order.
C9_BoundedHistory ==
    \A id \in DOMAIN browserUseSessions :
        LET history == browserUseSessions[id].conversationHistory
            n == Len(submitted[id])
            kept == IF n < 50 THEN n ELSE 50
        IN  /\ Len(history) <= 50
            /\ Len(history) = kept
            /\ InstructionsOf(history) = SubSeq(submitted[id], n - kept + 1, n)

\* The 51st action was pushed on a session: the history holds 50 entries, the
\* second instruction first.
C9_Witness ==
    \E id \in DOMAIN browserUseSessions :
        /\ Len(submitted[id]) = 51
        /\ Len(browserUseSessions[id].conversationHistory) = 50
        /\ browserUseSessions[id].conversationHistory[1].instruction = InstructionAt(2)

---------------------------------------------------------------------------
(* The envelope sent back.                                                 *)

IdEchoed(body) == body.kind = "object" => response'.id = body.id

\* C10: the envelope sent back for a body that decodes to an envelope has the
\* id of that envelope, be it a result or an error, whatever the id is.
C10_ResponseIdIsRequestId == [][EveryCall(ProtocolBodies(config), IdEchoed)]_vars

---------------------------------------------------------------------------
(* The dispatcher.                                                         *)

\* The tool names of a worker's registry.
Registry(cfg) ==
    IF cfg \in {SA_CONFIG, LEGACY_CONFIG} THEN {"sequential_thinking"} ELSE HandlerNames(cfg)

\* The command is a tools/call that names a tool.
CallsTool(body) ==
    body.kind = "object" /\ body.method = "tools/call" /\ body.hasParams

UnknownToolRejected(body) ==
    CallsTool(body) /\ body.name \notin Registry(config) =>
        /\ response'.kind = "error"
        /\ response'.id = body.id
        /\ Stores' = Stores

\* C11: a tools/call naming a tool that is not in the registry of the shared
\* or of the standalone dispatcher is answered with an error envelope of the
\* request's id, and no session changes.
C11_UnknownToolIsError ==
    [][config # LEGACY_CONFIG
        => EveryCall(ProtocolBodies(config), UnknownToolRejected)]_vars

\* The configurations served through the shared dispatcher.
SharedConfigs == {ST_CONFIG, PW_CONFIG, BU_CONFIG}

\* The step answered with the dispatcher's error envelope.
DispatchError == response'.kind = "error" /\ response'.code = DISPATCH_ERROR

\* The handler of a registered tool throws on the call.
HandlerThrows(body) ==
    /\ CallsTool(body)
    /\ body.name \in Registry(config)
    /\ CallHandler(config, body.name, Stores, body.hasArgs, body.args, MockActions[1], now).threw

\* A throwing handler and an unknown method are answered with -32000.
FaultCaught(body) ==
    body.kind = "object" =>
        /\ response'.kind \in {"result", "error"}
        /\ HandlerThrows(body) => DispatchError
        /\ body.method \notin {"initialize", "tools/list", "tools/call"} => DispatchError

\* An unknown tool name is answered with -32000.
UnknownToolCaught(body) ==
    CallsTool(body) /\ body.name \notin Registry(config) => DispatchError

FaultsCaught(body) == FaultCaught(body) /\ UnknownToolCaught(body)

\* C12: the shared dispatcher answers every envelope with one envelope, and a
\* handler that throws, an unknown tool name and an unknown method each with
\* an error envelope of code -32000.
C12_DispatcherCatchesFaults ==
    [][(config \in SharedConfigs)
        => EveryCall(ProtocolBodies(config), FaultsCaught)]_vars

\* The body does not parse as JSON.
Undecodable(body) == body.kind = "malformed"

\* The parse-error envelope, and the stores as they were.
ParseErrorOnly(body) ==
    Undecodable(body) =>
        /\ response'.kind = "error"
        /\ response'.code = PARSE_ERROR
        /\ response'.id = "null"
        /\ Stores' = Stores
        /\ submitted' = submitted

\* C13: the shared handleSSE answers a body that cannot be decoded with the
\* parse-error envelope (code -32700, id null) and changes no session store,
\* expired sessions included: no dispatcher and no handler has run.
C13_UndecodableBodyIsParseError ==
    [][(config \in SharedConfigs)
        => EveryCall(ProtocolBodies(config), ParseErrorOnly)]_vars

\* An undecodable body was answered while a session past the timeout was held.
C13_Witness ==
    /\ config \in SharedConfigs
    /\ response.kind = "error"
    /\ response.code = PARSE_ERROR
    /\ response.message = "Unexpected token in JSON"
    /\ \E id \in DOMAIN Store : IdleTooLong(Store[id])

\* The line of its configuration's source at which a tool's descriptor starts.
DefinedAt(name) ==
    CASE name = "sequential_thinking" -> 144
      [] name = "playwright_navigate" -> 289
      [] name = "playwright_click" -> 311
      [] name = "playwright_fill" -> 333
      [] name = "playwright_screenshot" -> 359
      [] name = "playwright_get_text" -> 381
      [] name = "playwright_wait_for_element" -> 399
      [] name = "playwright_list_sessions" -> 426
      [] name = "browseruse_natural_action" -> 267
      [] name = "browseruse_navigate" -> 289
      [] name = "browseruse_conversation_history" -> 315
      [] name = "browseruse_list_sessions" -> 333

\* What tools/list would be answered in this state.
Listing(id) ==
    handleMCPRequest(Request(id, "tools/list"), config, Stores, MockActions[1], now)

\* The descriptors are those of the registry, each once, in definition order.
InDefinitionOrder(tools) ==
    /\ {tools[i] : i \in 1..Len(tools)} = Registry(config)
    /\ \A i \in 1..Len(tools) - 1 : DefinedAt(tools[i]) < DefinedAt(tools[i + 1])

\* C14: in every state, whatever calls and clock advances led to it, tools/list
\* is answered with the registry's descriptors in definition order (so any two
\* listings of a worker are the same sequence), and it changes no store.
C14_ListingIsRegistryOrder ==
    config \in SharedConfigs =>
        \A id \in Ids :
            \E out \in {Listing(id)} :
                /\ out.envelope.kind = "result"
                /\ out.envelope.id = id
                /\ InDefinitionOrder(out.envelope.result.tools)
                /\ out.store = Stores

\* A listing of several tools after sessions were created and the clock advanced.
C14_Witness ==
    /\ config = PW_CONFIG
    /\ Len(Listing("1").envelope.result.tools) > 1
    /\ DOMAIN Store # {}
    /\ now > 0
    /\ response.kind = "result"

----------------------------------------------------------------------------
(* The linear-path specification: one client submits thoughts without a    *)
(* branch to the session "s1" of a thinking worker, and time passes.       *)

\* The steps one session is let grow to.
MaxSteps == 4

\* (thoughtNumber, totalThoughts, nextThoughtNeeded) of the thoughts sent.
LinearThoughts ==
    {<<1, 3, TRUE>>, <<2, 3, TRUE>>, <<3, 3, FALSE>>, <<23, 40, TRUE>>, <<3, 2, TRUE>>}

LinearBodies ==
    {ToolCall("1", "sequential_thinking",
              [NoArguments EXCEPT !.sessionId = "s1", !.thought = "think",
                                  !.thoughtNumber = th[1], !.totalThoughts = th[2],
                                  !.nextThoughtNeeded = th[3]]) : th \in LinearThoughts}

LinearCommand == \E body \in LinearBodies : Post(body, MockActions[1], MaxSteps)

InitLinear == InitWith({ST_CONFIG})

NextLinear == Tick \/ LinearCommand

SpecLinear == InitLinear /\ [][NextLinear]_vars

\* round(100 * thoughtNumber / totalThoughts), halves upwards, over the rationals.
RoundedPercent(thoughtNumber, totalThoughts) ==
    (200 * thoughtNumber + totalThoughts) \div (2 * totalThoughts)

\* The main path of "s1" before the step, empty for a fresh session.
StepsBefore == IF "s1" \in DOMAIN sessions THEN sessions["s1"].steps ELSE <<>>

\* What the handler answers the call in this state.
ThinkingResult(body) ==
    ST_handleSequentialThinking(Stores, body.hasArgs, body.args, now).result

\* One more step on the main path, and completion as the call says.
LinearStep(body) ==
    /\ Len(sessions'["s1"].steps) = Len(StepsBefore) + 1
    /\ sessions'["s1"].isCompleted = ~body.args.nextThoughtNeeded
    /\ response'.kind = "result"

\* The scenario: (1,3,true), (2,3,true), then (3,3,false).
LinearScenario(body) ==
    /\ Len(StepsBefore) = 2
    /\ StepsBefore[1].thoughtNumber = 1 /\ StepsBefore[2].thoughtNumber = 2
    /\ sessions["s1"].totalThoughts = 3
    /\ body.args.thoughtNumber = 3 /\ body.args.totalThoughts = 3
    /\ ~body.args.nextThoughtNeeded
    => /\ sessions'["s1"].isCompleted
       /\ Len(sessions'["s1"].steps) = 3
       /\ ThinkingResult(body).progressPercentage = 100

\* The progress the call reports is the rounded percentage.
ProgressIsRounded(body) ==
    ThinkingResult(body).progressPercentage
        = RoundedPercent(body.args.thoughtNumber, body.args.totalThoughts)

\* C15: every call without a branch on "s1" adds one step to the main path
\* (so n calls on a fresh session leave n steps), sets isCompleted to the
\* negation of its nextThoughtNeeded and reports round(100 * thoughtNumber /
\* totalThoughts); the scenario ends completed, with 3 steps and progress 100.
C15_LinearPath ==
    [][\A body \in LinearBodies :
          \/ ~Post(body, MockActions[1], MaxSteps)
          \/ LinearStep(body) /\ LinearScenario(body) /\ ProgressIsRounded(body)]_vars

----------------------------------------------------------------------------
(* A session's page.                                                       *)

\* The command is a playwright_navigate that returned.
Navigated(body) ==
    /\ body.kind = "object" /\ body.method = "tools/call"
    /\ body.name = "playwright_navigate" /\ body.hasArgs
    /\ response'.kind = "result"

\* The session was stored before the step and has the pageUrl it had.
KeepsPage(id) ==
    /\ id \in DOMAIN browserSessions
    /\ browserSessions'[id].pageUrl = browserSessions[id].pageUrl

\* A navigation that returned gives its session its url; every other stored
\* session was stored before and keeps its pageUrl.
PageFollowsNavigate(body) ==
    \A id \in DOMAIN browserSessions' :
        IF Navigated(body) /\ id = SessionIdOf(body.args)
        THEN browserSessions'[id].pageUrl = body.args.url
        ELSE KeepsPage(id)

\* C16: a session's pageUrl is the url of the last playwright_navigate that
\* returned for its id: such a call sets it, and no other step (another
\* tool, a call on another session, a failed call, a health check, the
\* passing of time) changes the pageUrl of a session or stores a new one.
C16_PageUrlIsLastNavigation ==
    [][config = PW_CONFIG =>
          /\ EveryCall(PlaywrightBodies, PageFollowsNavigate)
          /\ response'.kind # "result" => \A id \in DOMAIN browserSessions' : KeepsPage(id)]_vars

\* Two sessions on different pages, one of them used again after its navigation.
C16_Witness ==
    /\ config = PW_CONFIG
    /\ DOMAIN browserSessions = {"a", "default"}
    /\ browserSessions["a"].pageUrl # browserSessions["default"].pageUrl
    /\ browserSessions["a"].lastUsed > browserSessions["default"].lastUsed
    /\ browserSessions["default"].lastUsed > browserSessions["a"].created
    /\ response.kind = "result"

----------------------------------------------------------------------------
(* The declared total of a reasoning session.                              *)

\* After the call the total of "s1" is the value supplied if the session is
\* new, and the higher of the value supplied and the total it had if not.
HighWaterMark(body) ==
    LET supplied == body.args.totalThoughts
        total == sessions'["s1"].totalThoughts
    IN  IF "s1" \notin DOMAIN sessions
        THEN total = supplied
        ELSE /\ total >= supplied
             /\ total >= sessions["s1"].totalThoughts
             /\ total \in {supplied, sessions["s1"].totalThoughts}

\* No stored session's total goes down in a step.
TotalsNeverDecrease ==
    \A id \in DOMAIN sessions \cap DOMAIN sessions' :
        sessions'[id].totalThoughts >= sessions[id].totalThoughts

\* C17: a session's totalThoughts is the maximum of the totalThoughts of the
\* calls made on it since it was created (each call leaves the higher of the
\* total so far and its own), and it never decreases from a state to the next.
C17_TotalIsHighWaterMark ==
    [][/\ TotalsNeverDecrease
       /\ \A body \in LinearBodies :
             ~Post(body, MockActions[1], MaxSteps) \/ HighWaterMark(body)]_vars

\* A call that supplied 3 was made on a session whose total was 40 already.
C17_Witness ==
    /\ "s1" \in DOMAIN sessions
    /\ sessions["s1"].totalThoughts = 40
    /\ sessions["s1"].currentThought = 3
    /\ response.kind = "result"

----------------------------------------------------------------------------
(* Last activity.                                                          *)

\* A call that names a session and returns leaves it stored, last active now.
StampedByCall(body) ==
    NamesSession(body) /\ response'.kind = "result" =>
        /\ SessionIdOf(body.args) \in DOMAIN Store'
        /\ LastActive(Store'[SessionIdOf(body.args)]) = now

\* A session that is gone after the step was idle for more than the timeout.
RemovedOnlyIfIdle ==
    \A id \in DOMAIN Store \ DOMAIN Store' : IdleTooLong(Store[id])

\* C18: every tool call that names a session and returns sets the session's
\* lastUsed / lastUpdated to the time of the call, and a step removes a
\* session only if its last activity is more than the timeout in the past.
C18_SuccessfulCallStamps ==
    [][EveryCall(Bodies(config), StampedByCall) /\ RemovedOnlyIfIdle]_vars

\* A session created earlier was named by a call that returned just now.
C18_Witness ==
    /\ response.kind = "result"
    /\ \E id \in DOMAIN Store :
          /\ LastActive(Store[id]) = now
          /\ Store[id].created < now
    /\ \E id \in DOMAIN Store : LastActive(Store[id]) < now

----------------------------------------------------------------------------
(* The credential of the natural-language handler.                         *)

\* The key is empty or absent, lacks the prefix, or is shorter than 20.
BadShape(apiKey) ==
    \/ apiKey \in {Undefined, ""}
    \/ SubSeq(apiKey, 1, 3) # "sk-"
    \/ Len(apiKey) < 20

\* The command is a browseruse_natural_action with arguments.
IsNaturalAction(body) ==
    /\ body.kind = "object" /\ body.method = "tools/call"
    /\ body.name = "browseruse_natural_action" /\ body.hasArgs

\* The call fails; no session is new and no stored history has changed.
BadKeyRejected(body) ==
    IsNaturalAction(body) /\ BadShape(body.args.apiKey) =>
        /\ response'.kind = "error"
        /\ DOMAIN browserUseSessions' \subseteq DOMAIN browserUseSessions
        /\ \A id \in DOMAIN browserUseSessions' :
              browserUseSessions'[id].conversationHistory
                  = browserUseSessions[id].conversationHistory

\* C19: a browseruse_natural_action whose apiKey is empty, does not start
\* with sk- or is shorter than 20 characters is answered with an error,
\* creates no session and appends no conversation-history entry.
C19_BadKeyDoesNothing ==
    [][config = BU_CONFIG => EveryCall(BrowserUseBodies, BadKeyRejected)]_vars

\* A key of a bad shape was rejected while a session with a history was held.
C19_Witness ==
    /\ config = BU_CONFIG
    /\ response.kind = "error"
    /\ response.message = BU_keyError("sk-0123456789abcdef")
    /\ \E id \in DOMAIN browserUseSessions :
          Len(browserUseSessions[id].conversationHistory) > 0
    /\ "default" \notin DOMAIN browserUseSessions

----------------------------------------------------------------------------
(* The credential of every Browser-use tool.                               *)

\* The command is a call of a Browser-use tool.
IsBrowserUseCall(body) ==
    /\ body.kind = "object" /\ body.method = "tools/call"
    /\ body.name \in HandlerNames(BU_CONFIG)

\* A call that returns a result carried a key that passes the validation.
ResultNeedsKey(body) ==
    IsBrowserUseCall(body) /\ response'.kind = "result" =>
        /\ body.hasArgs
        /\ ~FalsyStr(body.args.apiKey)
        /\ ValidOpenAIKey(body.args.apiKey)

\* C20: every call of a Browser-use tool that returns a result, the reading
\* of a history and the listing of the sessions included, was made with an
\* apiKey that passes the shape validation.
C20_EveryResultNeedsKey ==
    [][config = BU_CONFIG => EveryCall(BrowserUseBodies, ResultNeedsKey)]_vars

----------------------------------------------------------------------------
(* The key a Browser-use session stores.                                   *)

\* The session is the one stored before the step, not one created by it.
SameSession(id) ==
    /\ id \in DOMAIN browserUseSessions
    /\ browserUseSessions'[id].created = browserUseSessions[id].created

\* The stored key is ten characters and an ellipsis, and no key a client sent.
IsPreview(stored) ==
    /\ Len(stored) = 13
    /\ SubSeq(stored, 11, 13) = "..."
    /\ stored \notin {GoodKey, OtherKey}

\* A session the call created stores the preview of the call's key; a session
\* that was there keeps the key it stored.
KeyIsCreatorsPreview(body) ==
    \A id \in DOMAIN browserUseSessions' :
        /\ IsPreview(browserUseSessions'[id].apiKey)
        /\ IF SameSession(id)
           THEN browserUseSessions'[id].apiKey = browserUseSessions[id].apiKey
           ELSE /\ IsNaturalAction(body)
                /\ id = SessionIdOf(body.args)
                /\ Len(body.args.apiKey) >= 10
                /\ browserUseSessions'[id].apiKey = SubSeq(body.args.apiKey, 1, 10) \o "..."

\* C21: the apiKey a Browser-use session stores is the first 10 characters of
\* the key of the call that created it followed by '...', never a full key,
\* and no later call on the session, under whatever key, changes it.
C21_StoredKeyIsPreview ==
    [][config = BU_CONFIG => EveryCall(BrowserUseBodies, KeyIsCreatorsPreview)]_vars

\* A session one key created was used again under the other key.
C21_Witness ==
    /\ config = BU_CONFIG
    /\ "a" \in DOMAIN browserUseSessions
    /\ browserUseSessions["a"].apiKey = "sk-0123456..."
    /\ Len(browserUseSessions["a"].conversationHistory) = 2
    /\ browserUseSessions["a"].conversationHistory[2].instruction = OtherInstruction


---------------------------------------------------------------------------
(* The SSE adapter, stream by stream. handleSSE opens a TransformStream    *)
(* per request; a GET writes the connection frame and arms a 30 s          *)
(* interval, a POST reads its body, runs the dispatcher and writes the     *)
(* envelope. Each step below is one run-to-completion segment of the       *)
(* event loop: the code up to its next await, a timer callback, or the     *)
(* abort listener. Timers fire when they are due.                          *)

\* setInterval(..., 30000)
KEEPALIVE_MS == 30000

\* setTimeout(() => writer.close(), 100)
CLOSE_DELAY_MS == 100

\* No timer armed.
Off == -1

\* Streams a behaviour opens, and intervals the clock runs through.
MaxStreams == 2

MaxBeats == 2

ConnectionFrame(t) == [type |-> "connection", at |-> t, envelope |-> NoResponse]

PingFrame(t) == [type |-> "ping", at |-> t, envelope |-> NoResponse]

MessageFrame(envelope, t) == [type |-> "message", at |-> t, envelope |-> envelope]

\* writer.write(frame): a closed writer rejects the chunk, nothing is emitted.
WriterWrite(stream, frame) ==
    IF stream.closed THEN stream ELSE [stream EXCEPT !.frames = Append(@, frame)]

\* writer.close()
WriterClose(stream) == [stream EXCEPT !.closed = TRUE]

\* const { readable, writable } = new TransformStream()
NewStream(method, body, drawn) ==
    [method |-> method, body |-> body, drawn |-> drawn, phase |-> "open",
     frames |-> <<>>, closed |-> FALSE, keepAlive |-> Off, closeAt |-> Off,
     listening |-> FALSE, aborted |-> FALSE, order |-> 0, handledAt |-> Off,
     seen |-> 0, envelope |-> NoResponse]

\* The abort listener of the shared handler that forgets clearInterval.
OnAbortKeepsTimer(stream) == WriterClose(stream)

\* request.signal 'abort' listener: clearInterval(keepAlive); writer.close()
OnAbort(stream) == WriterClose([stream EXCEPT !.keepAlive = Off])

\* A close that cancels the interaction whether or not it listens.
PeerClosesCancels(stream) == OnAbort([stream EXCEPT !.aborted = TRUE])

\* The peer closes its connection: the listener runs if one is registered.
PeerCloses(stream) ==
    LET gone == [stream EXCEPT !.aborted = TRUE]
    IN  IF stream.listening THEN OnAbort(gone) ELSE gone

\* The GET branch: connection frame, interval, abort listener.
SubscribeStream(t) ==
    [WriterWrite(NewStream("GET", NullBody, MockActions[1]), ConnectionFrame(t))
        EXCEPT !.phase = "subscribed", !.keepAlive = t + KEEPALIVE_MS, !.listening = TRUE]

\* The POST branch up to `await request.text()`; the first worker has
\* written its connection frame by then.
ReceiveStream(cfg, body, drawn, seen, t) ==
    LET stream == [NewStream("POST", body, drawn) EXCEPT !.phase = "reading", !.seen = seen]
    IN  IF cfg = LEGACY_CONFIG THEN WriterWrite(stream, ConnectionFrame(t)) ELSE stream

\* The POST branch after the dispatcher returned: the frame is written; the
\* shared handler arms the close, the first worker the interval and listener.
ReplyStream(cfg, stream, t) ==
    LET written == [WriterWrite(stream, MessageFrame(stream.envelope, t))
                        EXCEPT !.phase = "replied"]
    IN  IF cfg = LEGACY_CONFIG
        THEN [written EXCEPT !.keepAlive = t + KEEPALIVE_MS, !.listening = TRUE]
        ELSE [written EXCEPT !.closeAt = t + CLOSE_DELAY_MS]

StreamConfigs == {ST_CONFIG, BU_CONFIG, LEGACY_CONFIG}

\* The commands whose handler has run.
Handled == {c \in DOMAIN streams : streams[c].order > 0}

\* Two calls on one session, and a body that does not parse.
StreamBodies(cfg) ==
    IF cfg = BU_CONFIG
    THEN {ToolCall("1", "browseruse_natural_action",
              [NoArguments EXCEPT !.sessionId = "a", !.instruction = Instruction,
                                  !.apiKey = GoodKey]),
          ToolCall("2", "browseruse_natural_action",
              [NoArguments EXCEPT !.sessionId = "a", !.instruction = OtherInstruction,
                                  !.apiKey = OtherKey]),
          MalformedBody}
    ELSE {ToolCall("1", "sequential_thinking", FirstThought("a")),
          ToolCall("2", "sequential_thinking",
              [FirstThought("a") EXCEPT !.thoughtNumber = 2, !.nextThoughtNeeded = FALSE]),
          MalformedBody}

StreamDraws == {MockActions[1]}


\* The instants at which an armed timer fires.
Due ==
    ({streams[c].keepAlive : c \in DOMAIN streams}
     \cup {streams[c].closeAt : c \in DOMAIN streams}) \ {Off}

Earliest(times) == CHOOSE t \in times : \A u \in times : t <= u

EmptyStores == [st |-> EmptyMap, pw |-> EmptyMap, bu |-> EmptyMap]

\* What the adapter does with one body on the Maps S at time t.
Dispatch(cfg, stream, S, t) ==
    IF cfg = LEGACY_CONFIG
    THEN legacyHandleSSE(stream.body, S, t)
    ELSE handleSSE(stream.body, cfg, S, stream.drawn, t)

\* The Maps after the first k handled commands ran one at a time, each at
\* the instant its handler ran.
RECURSIVE OneAtATime(_)
OneAtATime(k) ==
    IF k = 0 THEN EmptyStores
    ELSE LET c == CHOOSE d \in Handled : streams[d].order = k
         IN  Dispatch(config, streams[c], OneAtATime(k - 1), streams[c].handledAt).store

\* A handler that works on the Maps as they were when its request arrived.
StoresAtArrival(c) == OneAtATime(streams[c].seen)

\* The Maps a handler reads and writes: the module-level ones, at the time
\* it runs.
StoresAtHandle(c) == Stores

\* GET /sse
Subscribe ==
    /\ Len(streams) < MaxStreams
    /\ streams' = Append(streams, SubscribeStream(now))
    /\ UNCHANGED <<now, sessions, browserSessions, browserUseSessions, submitted,
                   response, config,
                   requests, checks>>

\* POST /sse arrives.
Receive ==
    /\ Len(streams) < MaxStreams
    /\ \E body \in StreamBodies(config) : \E drawn \in StreamDraws :
          streams' = Append(streams,
                            ReceiveStream(config, body, drawn, Cardinality(Handled), now))
    /\ UNCHANGED <<now, sessions, browserSessions, browserUseSessions, submitted,
                   response, config,
                   requests, checks>>

\* The body is read: JSON.parse, the dispatcher and the tool handler run
\* without yielding (the handlers hold no await).
Handle(c) ==
    /\ streams[c].phase = "reading"
    /\ \E out \in {Dispatch(config, streams[c], StoresAtHandle(c), now)} :
          /\ Stored(out.store) <= MaxStored + 1
          /\ sessions' = out.store.st
          /\ browserSessions' = out.store.pw
          /\ browserUseSessions' = out.store.bu
          /\ submitted' = SubmittedAfter(streams[c].body, out.envelope, out.store.bu, now)
          /\ streams' = [streams EXCEPT ![c] =
                            [@ EXCEPT !.phase = "handled",
                                      !.envelope = Header(out.envelope),
                                      !.order = Cardinality(Handled) + 1,
                                      !.handledAt = now]]
    /\ UNCHANGED <<now, response, config,
                   requests, checks>>

\* The awaited dispatcher result arrives: the frame is written.
Reply(c) ==
    /\ streams[c].phase = "handled"
    /\ streams' = [streams EXCEPT ![c] = ReplyStream(config, @, now)]
    /\ response' = streams[c].envelope
    /\ UNCHANGED <<now, sessions, browserSessions, browserUseSessions, submitted, config,
                   requests, checks>>

\* The setTimeout callback of a replied POST.
CloseTimer(c) ==
    /\ streams[c].closeAt = now
    /\ streams' = [streams EXCEPT ![c] = WriterClose([@ EXCEPT !.closeAt = Off])]
    /\ UNCHANGED <<now, sessions, browserSessions, browserUseSessions, submitted,
                   response, config,
                   requests, checks>>

\* The setInterval callback.
Heartbeat(c) ==
    /\ streams[c].keepAlive = now
    /\ streams' = [streams EXCEPT ![c] =
                      [WriterWrite(@, PingFrame(now)) EXCEPT !.keepAlive = now + KEEPALIVE_MS]]
    /\ UNCHANGED <<now, sessions, browserSessions, browserUseSessions, submitted,
                   response, config,
                   requests, checks>>

\* The client goes away.
Abort(c) ==
    /\ ~streams[c].aborted
    /\ streams' = [streams EXCEPT ![c] = PeerCloses(@)]
    /\ UNCHANGED <<now, sessions, browserSessions, browserUseSessions, submitted,
                   response, config,
                   requests, checks>>

\* Time passes up to the next timer, or by one interval if none is armed.
Elapse ==
    /\ now < MaxBeats * KEEPALIVE_MS
    /\ \A t \in Due : t > now
    /\ now' = Earliest(Due \cup {now + KEEPALIVE_MS})
    /\ UNCHANGED <<sessions, browserSessions, browserUseSessions, submitted, response,
                   config, streams,
                   requests, checks>>

InitStream == InitWith(StreamConfigs)

NextStream ==
    \/ Subscribe
    \/ Receive
    \/ \E c \in DOMAIN streams : Handle(c)
    \/ \E c \in DOMAIN streams : Reply(c)
    \/ \E c \in DOMAIN streams : CloseTimer(c)
    \/ \E c \in DOMAIN streams : Heartbeat(c)
    \/ \E c \in DOMAIN streams : Abort(c)
    \/ Elapse

SpecStream == InitStream /\ [][NextStream]_vars

---------------------------------------------------------------------------
(* Subscribe lifecycle.                                                    *)

Subscriptions(ss) == {c \in DOMAIN ss : ss[c].method = "GET"}

\* The frames of a subscription: the connection frame, then one ping per
\* elapsed interval.
SubscribeFrames(stream) ==
    /\ Len(stream.frames) >= 1
    /\ stream.frames[1].type = "connection"
    /\ \A k \in 2..Len(stream.frames) :
          /\ stream.frames[k].type = "ping"
          /\ stream.frames[k].at = stream.frames[1].at + (k - 1) * KEEPALIVE_MS

\* After the peer closed: no timer, a closed writer.
Released(stream) ==
    stream.aborted => (stream.keepAlive = Off /\ stream.closed)

SubscribeLifecycle ==
    \A c \in Subscriptions(streams') :
        /\ SubscribeFrames(streams'[c])
        /\ Released(streams'[c])
        /\ (c \in DOMAIN streams /\ streams[c].aborted) => streams'[c] = streams[c]

\* C22: on a GET stream the first frame is the connection frame and every
\* later frame is a ping written on a 30-second tick of that stream; once
\* the peer has closed the connection the interval is cleared, the writer
\* is closed, and the stream never changes again.
C22_SubscribeLifecycle == [][SubscribeLifecycle]_vars

\* A subscription that pinged once, was closed by its peer, and then sat
\* through a whole interval without a frame.
C22_Witness ==
    \E c \in Subscriptions(streams) :
        /\ streams[c].aborted
        /\ Len(streams[c].frames) = 2
        /\ now >= streams[c].frames[2].at + KEEPALIVE_MS

---------------------------------------------------------------------------
(* Command lifecycle.                                                      *)

Commands(ss) == {c \in DOMAIN ss : ss[c].method = "POST"}

\* The one frame of a command: the envelope the dispatcher (or the catch
\* clause) produced for it.
OnlyTheEnvelope(stream) ==
    /\ Len(stream.frames) <= 1
    /\ \A k \in DOMAIN stream.frames :
          /\ stream.frames[k].type = "message"
          /\ stream.frames[k].envelope = stream.envelope
          /\ stream.envelope.kind \in {"result", "error"}

\* Written before the close, and the close is on its way once it is written.
ClosedAfterReply(stream) ==
    /\ stream.closed => Len(stream.frames) = 1
    /\ stream.phase = "replied" =>
          /\ Len(stream.frames) = 1
          /\ stream.closed \/ stream.closeAt = stream.frames[1].at + CLOSE_DELAY_MS

\* C23: on every POST stream exactly one frame is written, the envelope of
\* the dispatcher or the parse-error envelope; it is written before the
\* stream is closed; after it the close is armed 100 ms later or done; no
\* connection frame and no ping is ever written on the stream.
C23_CommandLifecycle ==
    \A c \in Commands(streams) :
        OnlyTheEnvelope(streams[c]) /\ ClosedAfterReply(streams[c])

---------------------------------------------------------------------------
(* Cancellation scope.                                                     *)

\* This step is the peer closing stream c.
ClosedByPeer(c) == ~streams[c].aborted /\ streams'[c].aborted

\* What a close leaves alone: the Maps, every other stream, and, of a
\* command that registered no listener, everything but the mark.
CloseIsLocal(c) ==
    /\ <<sessions, browserSessions, browserUseSessions>>'
         = <<sessions, browserSessions, browserUseSessions>>
    /\ \A d \in DOMAIN streams \ {c} : streams'[d] = streams[d]
    /\ (streams[c].method = "POST" /\ ~streams[c].listening) =>
          streams'[c] = [streams[c] EXCEPT !.aborted = TRUE]

\* A subscription nobody closed has written a ping at every interval so
\* far and has the next one armed.
StillBeating(stream) ==
    ~stream.aborted =>
        /\ stream.keepAlive = stream.frames[1].at + Len(stream.frames) * KEEPALIVE_MS
        /\ stream.keepAlive >= now'

\* A command keeps its writer open until it replied, and its reply is on
\* the stream, closed by the peer or not.
StillReplies(stream) ==
    /\ stream.phase # "replied" => ~stream.closed
    /\ stream.phase = "replied" => Len(stream.frames) = 1

CancellationScope ==
    /\ \A c \in DOMAIN streams : ClosedByPeer(c) => CloseIsLocal(c)
    /\ \A c \in Subscriptions(streams') : StillBeating(streams'[c])
    /\ \A c \in Commands(streams') : StillReplies(streams'[c])

\* C24: under the shared handler, a peer closing one connection changes no
\* session and no other stream, so every other subscription keeps pinging
\* at each interval; a command it closes keeps its phase and its open
\* writer, runs its handler and has its reply frame written.
C24_CancellationScope == [][(config # LEGACY_CONFIG) => CancellationScope]_vars

\* A command whose peer left: the session it created is stored and its
\* result frame is on its stream, beside a subscription that nobody
\* closed and that has pinged.
C24_Witness ==
    /\ config = ST_CONFIG
    /\ \E c \in Commands(streams) : \E d \in Subscriptions(streams) :
          /\ streams[c].aborted
          /\ streams[c].handledAt = 0
          /\ Len(streams[c].frames) = 1
          /\ streams[c].frames[1].envelope.kind = "result"
          /\ "a" \in DOMAIN sessions
          /\ ~streams[d].aborted
          /\ Len(streams[d].frames) = 2

---------------------------------------------------------------------------
(* Handlers run one at a time.                                             *)

\* The handled commands that returned a result.
Succeeded == {c \in Handled : streams[c].envelope.kind = "result"}

\* Every successful call left its entry: the thinking log and the
\* conversation history are as long as the calls are many.
NoLostUpdate ==
    /\ (config # BU_CONFIG /\ Succeeded # {}) =>
          /\ "a" \in DOMAIN sessions
          /\ Len(sessions["a"].steps) = Cardinality(Succeeded)
          /\ \A c \in Succeeded :
                \E k \in DOMAIN sessions["a"].steps :
                    sessions["a"].steps[k].thoughtNumber = streams[c].body.args.thoughtNumber
    /\ (config = BU_CONFIG /\ Succeeded # {}) =>
          /\ "a" \in DOMAIN browserUseSessions
          /\ Len(browserUseSessions["a"].conversationHistory) = Cardinality(Succeeded)
          /\ \A c \in Succeeded :
                \E k \in DOMAIN browserUseSessions["a"].conversationHistory :
                    browserUseSessions["a"].conversationHistory[k].instruction
                        = streams[c].body.args.instruction

\* C25: however the steps of concurrent commands interleave, the Maps are
\* what running the handlers one at a time, in the order they ran, gives;
\* every call that returned a result has its step in the thinking log, or
\* its entry in the conversation history.
C25_HandlersSerialized ==
    /\ Stores = OneAtATime(Cardinality(Handled))
    /\ NoLostUpdate

\* Two commands on session "a" in flight together: the second arrived
\* before the first was handled, and both have run.
C25_Witness ==
    /\ Len(streams) = 2
    /\ Succeeded = {1, 2}
    /\ streams[1].seen = 0
    /\ streams[2].seen = 0
    /\ streams[2].order = 1
    /\ streams[1].body # streams[2].body

---------------------------------------------------------------------------
(* The multi-server worker: one process whose fetch picks the tool-set by  *)
(* the request's hostname, so that the Maps of the thinking and the        *)
(* Playwright tool-set live side by side; and the Browser-use tool-set,    *)
(* which that switch does not route, served by a worker of its own.        *)

\* hostname.includes(word)
Includes(hostname, word) ==
    \E i \in 1..(Len(hostname) - Len(word) + 1) :
        SubSeq(hostname, i, i + Len(word) - 1) = word

getServerType(hostname) ==
    IF Includes(hostname, "playwright-mcp-server") \/ Includes(hostname, "playwright")
    THEN "playwright"
    ELSE IF Includes(hostname, "browser-use-mcp-server") \/ Includes(hostname, "browser-use")
    THEN "browser-use"
    ELSE "sequential-thinking"

\* The switch of fetch: the browser-use case is commented out and falls to
\* the default.
ConfigOf(serverType) ==
    IF serverType = "playwright" THEN PW_CONFIG ELSE ST_CONFIG

Hostnames ==
    {"playwright-mcp-server.example.workers.dev",
     "browser-use-mcp-server.example.workers.dev",
     "remote-mcp-server-authless.example.workers.dev",
     "localhost"}

\* The configurations the worker of this behaviour can serve.
Deployed(hostname) ==
    IF config = BU_CONFIG THEN BU_CONFIG ELSE ConfigOf(getServerType(hostname))

RouterBodies(cfg) ==
    CASE cfg = PW_CONFIG ->
            {ToolCall("1", "playwright_navigate",
                 [NoArguments EXCEPT !.sessionId = sid, !.url = "https://a.example/"]) :
                 sid \in SessionIdArgs}
            \cup {ToolCall("1", "playwright_click",
                      [NoArguments EXCEPT !.sessionId = sid, !.selector = "#go"]) :
                      sid \in SessionIdArgs}
            \cup {ToolCall("1", "playwright_list_sessions", NoArguments)}
      [] cfg = BU_CONFIG ->
            {ToolCall("1", "browseruse_natural_action",
                 [NoArguments EXCEPT !.sessionId = sid, !.instruction = Instruction,
                                     !.apiKey = GoodKey]) : sid \in SessionIdArgs}
            \cup {ToolCall("1", "browseruse_list_sessions", NoArguments)}
      [] OTHER ->
            {ToolCall("1", "sequential_thinking", a) :
                 a \in {FirstThought(sid) : sid \in SessionIdArgs}
                       \cup {[FirstThought("a") EXCEPT !.thought = Undefined]}}

\* POST https://<hostname>/sse
Routed(hostname) ==
    \E cfg \in {Deployed(hostname)} :
    \E body \in RouterBodies(cfg) : \E drawn \in DrawsFor(body) :
    \E out \in {handleSSE(body, cfg, Stores, drawn, now)} :
        /\ Stored(out.store) <= MaxStored
        /\ sessions' = out.store.st
        /\ browserSessions' = out.store.pw
        /\ browserUseSessions' = out.store.bu
        /\ submitted' = SubmittedAfter(body, out.envelope, out.store.bu, now)
        /\ response' = Header(out.envelope)
        /\ config' = cfg
        /\ UNCHANGED <<now, streams,
                       requests, checks>>

InitRouter == InitWith({ST_CONFIG, BU_CONFIG})

NextRouter == Tick \/ \E hostname \in Hostnames : Routed(hostname)

SpecRouter == InitRouter /\ [][NextRouter]_vars

\* The Maps of the tool-sets other than cfg are as they were.
OthersUntouched(cfg) ==
    /\ cfg # ST_CONFIG => sessions' = sessions
    /\ cfg # PW_CONFIG => browserSessions' = browserSessions
    /\ cfg # BU_CONFIG => browserUseSessions' = browserUseSessions

\* C26: a request served by one tool-set leaves the Maps of the other two
\* tool-sets exactly as they were: no session of theirs is created,
\* modified, swept or removed, whatever ids either holds.
C26_NoCrossToolSetSharing == [][OthersUntouched(config')]_vars

\* Both Maps of the multi-server worker hold the session "default"; the
\* thinking one is idle for more than its hour, and the Playwright one was
\* used just now, by a call that swept the Playwright Map.
C26_Witness ==
    /\ config = PW_CONFIG
    /\ "default" \in DOMAIN sessions
    /\ "default" \in DOMAIN browserSessions
    /\ now - sessions["default"].lastUpdated > ST_SESSION_TIMEOUT
    /\ browserSessions["default"].lastUsed = now

---------------------------------------------------------------------------
(* The default session id.                                                 *)

\* The same call with sessionId: "default" spelled out.
NamingDefault(body) == [body EXCEPT !.args.sessionId = "default"]

\* The calls that name a session by omission.
OmittingSessionId(bodies) ==
    {body \in bodies : NamesSession(body) /\ body.args.sessionId = Undefined}

\* A call without sessionId does what the call naming "default" does: the
\* same Maps, the same frame; where it returns a result, the session
\* "default" is stored.
ActsOnDefault(body, drawn) ==
    \E out \in {handleSSE(body, config, Stores, drawn, now)} :
    \E twin \in {handleSSE(NamingDefault(body), config, Stores, drawn, now)} :
        /\ out.store = twin.store
        /\ out.envelope = twin.envelope
        /\ out.envelope.kind = "result" =>
              "default" \in DOMAIN StoreOf(out.store)

\* Every session is stored under its own id.
KeyedById(store) == \A id \in DOMAIN store : store[id].sessionId = id

\* C27: in every state, a tool call without sessionId has the effect and
\* the reply of the same call with sessionId "default", so both address
\* the one session stored under "default"; every stored session sits under
\* its own id, one per id.
C27_DefaultSessionId ==
    /\ \A body \in OmittingSessionId(Bodies(config)) : \A drawn \in DrawsFor(body) :
          ActsOnDefault(body, drawn)
    /\ KeyedById(sessions) /\ KeyedById(browserSessions) /\ KeyedById(browserUseSessions)

\* Two calls without sessionId went to the one session "default": the
\* thinking log holds two steps, or the conversation two instructions, or
\* the page was navigated and then clicked.
C27_Witness ==
    /\ DOMAIN Store = {"default"}
    /\ response.kind = "result"
    /\ CASE config = ST_CONFIG -> Len(sessions["default"].steps) = 2
         [] config = BU_CONFIG ->
               Len(browserUseSessions["default"].conversationHistory) = 2
         [] OTHER -> browserSessions["default"].lastUsed > browserSessions["default"].created

---------------------------------------------------------------------------
(* The first worker's tool handler: the CallToolRequestSchema handler of   *)
(* its Server, a switch over five tool names, all on the one Map.          *)

\* olderThanHours * 3600000
HOUR_MS == 3600000

\* A payload {status, message, cleared} of a tool that is not the thinking
\* tool; `cleared` is UndefinedNum where the payload has none.
Payload(tool, status, message, cleared) ==
    [tool |-> tool, status |-> status, message |-> message, cleared |-> cleared]

\* A lookup that makes the session it did not find.
get_thinking_session_creating(S, args, t) ==
    IF args.sessionId \in DOMAIN S.st
    THEN Returned(S, Payload("get_thinking_session", "success", "", UndefinedNum))
    ELSE Returned([S EXCEPT !.st = MapSet(S.st, args.sessionId,
                                          ST_getOrCreate(S.st, args.sessionId, t))],
                  Payload("get_thinking_session", "success", "", UndefinedNum))

\* case "get_thinking_session"
get_thinking_session(S, args, t) ==
    IF args.sessionId \in DOMAIN S.st
    THEN Returned(S, Payload("get_thinking_session", "success", "", UndefinedNum))
    ELSE Returned(S, Payload("get_thinking_session", "error",
                             "Session " \o args.sessionId \o " not found", UndefinedNum))

\* case "list_thinking_sessions"
list_thinking_sessions(S) ==
    Returned(S, [tool |-> "list_thinking_sessions", status |-> "success",
                 message |-> "", cleared |-> UndefinedNum,
                 totalSessions |-> Cardinality(DOMAIN S.st), sessions |-> DOMAIN S.st])

\* case "analyze_thinking_patterns": one session if sessionId is truthy,
\* all of them otherwise.
analyze_thinking_patterns(S, args) ==
    LET sessionsToAnalyze ==
            IF ~FalsyStr(args.sessionId)
            THEN {args.sessionId} \cap DOMAIN S.st
            ELSE DOMAIN S.st
    IN  IF sessionsToAnalyze = {}
        THEN Returned(S, Payload("analyze_thinking_patterns", "error",
                                 "No sessions found for analysis", UndefinedNum))
        ELSE Returned(S, [tool |-> "analyze_thinking_patterns", status |-> "success",
                          message |-> "", cleared |-> UndefinedNum,
                          sessionsAnalyzed |-> Cardinality(sessionsToAnalyze)])

\* case "clear_thinking_sessions": if (sessionId) ... else if
\* (olderThanHours) ... else sessions.clear()
clear_thinking_sessions(S, args, t) ==
    IF ~FalsyStr(args.sessionId)
    THEN LET existed == args.sessionId \in DOMAIN S.st
         IN  Returned([S EXCEPT !.st = MapDelete(S.st, {args.sessionId})],
                 Payload("clear_thinking_sessions", "success",
                         IF existed THEN "Session " \o args.sessionId \o " cleared"
                                    ELSE "Session " \o args.sessionId \o " not found",
                         IF existed THEN 1 ELSE 0))
    ELSE IF ~FalsyNum(args.olderThanHours)
    THEN LET cutoffTime == t - args.olderThanHours * HOUR_MS
             old == {id \in DOMAIN S.st : S.st[id].lastUpdated < cutoffTime}
         IN  Returned([S EXCEPT !.st = MapDelete(S.st, old)],
                 Payload("clear_thinking_sessions", "success", "Cleared old sessions",
                         Cardinality(old)))
    ELSE Returned([S EXCEPT !.st = EmptyMap],
             Payload("clear_thinking_sessions", "success", "Cleared all sessions",
                     Cardinality(DOMAIN S.st)))

\* switch (name) of the handler; it destructures args in every case but the
\* listing.
CallToolRequest(name, S, hasArgs, args, t) ==
    CASE name = "sequential_thinking" -> ST_handleSequentialThinking(S, hasArgs, args, t)
      [] name = "list_thinking_sessions" -> list_thinking_sessions(S)
      [] name \in {"get_thinking_session", "analyze_thinking_patterns",
                   "clear_thinking_sessions"} /\ ~hasArgs ->
            Thrown(S, "Cannot destructure property 'sessionId' of 'args' as it is undefined.")
      [] name = "get_thinking_session" -> get_thinking_session(S, args, t)
      [] name = "analyze_thinking_patterns" -> analyze_thinking_patterns(S, args)
      [] name = "clear_thinking_sessions" -> clear_thinking_sessions(S, args, t)
      [] OTHER -> Thrown(S, "Unknown tool: " \o name)

\* What the state keeps of a tool's reply: the tool, its status, the
\* number it reports.
ToolReply(name, out) ==
    IF out.threw
    THEN [NoResponse EXCEPT !.kind = "error", !.id = name, !.message = out.message]
    ELSE [NoResponse EXCEPT !.kind = "result", !.id = name, !.message = out.result.status,
                            !.sessionsCount = IF name = "clear_thinking_sessions"
                                              THEN out.result.cleared ELSE UndefinedNum]

ToolSessionIds == {Undefined, "", "a"}

HoursArgs == {UndefinedNum, 0, 1}

\* { sessionId?, olderThanHours? }
ClearArguments ==
    {[NoArguments EXCEPT !.sessionId = sid, !.olderThanHours = h] :
        sid \in ToolSessionIds, h \in HoursArgs}

\* { sessionId? }
LookupArguments == {[NoArguments EXCEPT !.sessionId = sid] : sid \in ToolSessionIds \cup {"b"}}

ToolCalls ==
    {<<"sequential_thinking", TRUE, FirstThought(sid)>> : sid \in ToolSessionIds}
    \cup {<<"clear_thinking_sessions", TRUE, a>> : a \in ClearArguments}
    \cup {<<name, TRUE, a>> : name \in {"get_thinking_session", "analyze_thinking_patterns"},
                              a \in LookupArguments}
    \cup {<<"list_thinking_sessions", FALSE, NoArguments>>,
          <<"get_thinking_session", FALSE, NoArguments>>,
          <<"no_such_tool", TRUE, NoArguments>>}

\* One CallToolRequest handled.
CallTool(call) ==
    \E out \in {CallToolRequest(call[1], Stores, call[2], call[3], now)} :
        /\ Stored(out.store) <= MaxStored + 1
        /\ sessions' = out.store.st
        /\ response' = ToolReply(call[1], out)
        /\ UNCHANGED <<now, browserSessions, browserUseSessions, submitted, config, streams,
                       requests, checks>>

InitTools == InitWith({LEGACY_CONFIG})

NextTools == Tick \/ \E call \in ToolCalls : CallTool(call)

SpecTools == InitTools /\ [][NextTools]_vars

---------------------------------------------------------------------------
(* Explicit clear.                                                         *)

\* The sessions the arguments select: the named one; else those updated
\* more than olderThanHours hours ago; else all.
Selected(args) ==
    IF args.sessionId # Undefined
    THEN {args.sessionId} \cap DOMAIN sessions
    ELSE IF args.olderThanHours # UndefinedNum
    THEN {id \in DOMAIN sessions :
             now - sessions[id].lastUpdated > args.olderThanHours * HOUR_MS}
    ELSE DOMAIN sessions

ClearsSelected(args) ==
    /\ sessions' = MapDelete(sessions, Selected(args))
    /\ response'.kind = "result"
    /\ response'.sessionsCount = Cardinality(Selected(args))

\* C28: clear_thinking_sessions removes exactly the sessions its arguments
\* select and reports their number: the named session (1 if it was there,
\* 0 if not); with olderThanHours alone, the sessions last updated more
\* than that many hours ago; with neither, all; every other session stays
\* as it was.
C28_ClearRemovesSelected ==
    [][\A args \in ClearArguments :
          ~CallTool(<<"clear_thinking_sessions", TRUE, args>>) \/ ClearsSelected(args)]_vars

---------------------------------------------------------------------------
(* Read-only lookups.                                                      *)

ReadOnlyTools == {"get_thinking_session", "list_thinking_sessions", "analyze_thinking_patterns"}

\* A lookup of a session that is not stored returns the payload {status:
\* "error", message: "Session <id> not found"}; it does not throw.
AbsentIsAnswered(call) ==
    (call[1] = "get_thinking_session" /\ call[2] /\ call[3].sessionId \notin DOMAIN sessions) =>
        \E out \in {CallToolRequest(call[1], Stores, call[2], call[3], now)} :
            /\ ~out.threw
            /\ out.result.status = "error"
            /\ out.result.message = "Session " \o call[3].sessionId \o " not found"
            /\ response'.kind = "result"
            /\ response'.message = "error"

ReadsOnly(call) ==
    /\ sessions' = sessions
    /\ AbsentIsAnswered(call)

\* C29: get_thinking_session, list_thinking_sessions and
\* analyze_thinking_patterns leave the Map as it was: no session created,
\* modified or removed; a get_thinking_session of an id that is not stored
\* returns the payload "Session <id> not found" and throws nothing.
C29_LookupsReadOnly ==
    [][\A call \in {c \in ToolCalls : c[1] \in ReadOnlyTools} :
          ~CallTool(call) \/ ReadsOnly(call)]_vars

\* A get_thinking_session answered "not found" while other sessions are
\* stored.
C29_Witness ==
    /\ response.kind = "result"
    /\ response.id = "get_thinking_session"
    /\ response.message = "error"
    /\ Cardinality(DOMAIN sessions) = 2

---------------------------------------------------------------------------
(* initialize and tools/list.                                              *)

Stateless(body) == body.kind = "object" /\ body.method \in {"initialize", "tools/list"}

\* The reply is a result, and the Maps and the history are as they were.
ResultWithoutEffect(body) ==
    Stateless(body) =>
        /\ response'.kind = "result"
        /\ <<sessions, browserSessions, browserUseSessions, submitted>>'
             = <<sessions, browserSessions, browserUseSessions, submitted>>

\* C30: the shared dispatcher answers every initialize and every tools/list
\* envelope, with or without params, with a result envelope, and leaves
\* every Map as it was: no session is created, stamped or swept.
C30_InitializeAndListAreStateless ==
    [][(config \in SharedConfigs) =>
          EveryCall(ProtocolBodies(config), ResultWithoutEffect)]_vars

\* An envelope with the params of a tool call was answered with a result
\* while a session idle past its timeout stayed in the Map.
C30_Witness ==
    /\ config \in SharedConfigs
    /\ response.kind = "result"
    /\ response.id = ParamsId
    /\ \E id \in DOMAIN Store : IdleTooLong(Store[id])

---------------------------------------------------------------------------
(* The expiry sweep.                                                       *)

\* cleanupOldSessions() of the tool-set a configuration serves.
Sweep(cfg, store, t) ==
    CASE cfg = PW_CONFIG -> PW_cleanupOldSessions(store, t)
      [] cfg = BU_CONFIG -> BU_cleanupOldSessions(store, t)
      [] OTHER -> ST_cleanupOldSessions(store, t)

\* The sessions idle for no more than the timeout.
WithinTimeout(store) ==
    {id \in DOMAIN store : now - LastActive(store[id]) <= SessionTimeout(config)}

\* What a sweep of the Map at this instant gives: the sessions within the
\* timeout, as they are; and a second sweep gives the same.
SweepsExactly ==
    \E swept \in {Sweep(config, Store, now)} :
        /\ DOMAIN swept = WithinTimeout(Store)
        /\ \A id \in DOMAIN swept : swept[id] = Store[id]
        /\ Sweep(config, swept, now) = swept

\* A health check of a Playwright or Browser-use worker, which sweeps and
\* does nothing else to the Map.
SweptByHealth ==
    (config \in {PW_CONFIG, BU_CONFIG} /\ response'.kind = "health" /\ now' = now) =>
        /\ DOMAIN Store' = WithinTimeout(Store)
        /\ \A id \in DOMAIN Store' : Store'[id] = Store[id]
        /\ response'.sessionsCount = Cardinality(WithinTimeout(Store))

\* C31: cleanupOldSessions at time now leaves exactly the sessions with
\* now - lastActive <= timeout (one idle for exactly the timeout stays), each
\* with every field as it was; a second sweep at the same now changes
\* nothing.
C31_SweepRemovesExactlyExpired == [][SweepsExactly /\ SweptByHealth]_vars

\* A health check has swept: the Map holds one session, idle for exactly
\* the timeout, two timeouts after the worker started.
C31_Witness ==
    /\ config \in {PW_CONFIG, BU_CONFIG}
    /\ response.kind = "health"
    /\ response.sessionsCount = 1
    /\ now = 2 * TickMs
    /\ \E id \in DOMAIN Store : now - LastActive(Store[id]) = SessionTimeout(config)

---------------------------------------------------------------------------
(* Completion.                                                             *)

\* A session that is completed stays completed for as long as it is stored.
CompletedStays ==
    \A id \in DOMAIN sessions \cap DOMAIN sessions' :
        sessions[id].isCompleted => sessions'[id].isCompleted

\* C32: once a sequential_thinking call with nextThoughtNeeded = false has
\* been applied to a session, the session's isCompleted is true in every
\* later state in which the session exists, whatever calls follow.
C32_CompletedIsSticky == [][CompletedStays]_vars

---------------------------------------------------------------------------
(* Parse errors and dispatcher errors.                                     *)

\* The body is JSON text, whatever value it denotes.
Decodes(body) == body.kind # "malformed"

\* A body that decodes is answered with a result or with the dispatcher's
\* error code, and only a body that does not decode with the parse error.
CodesApart(body) ==
    /\ Decodes(body) =>
          \/ response'.kind = "result"
          \/ response'.kind = "error" /\ response'.code = DISPATCH_ERROR
    /\ response'.code = PARSE_ERROR => ~Decodes(body)

\* C33: under the shared handler the -32700 envelope answers only bodies
\* that fail to decode; every body that is JSON, an envelope without method
\* or params and the value null included, is answered with a result or
\* with a -32000 error.
C33_ParseErrorOnlyForUndecodable ==
    [][(config \in SharedConfigs) => EveryCall(ProtocolBodies(config), CodesApart)]_vars

---------------------------------------------------------------------------
(* The limit of a history read.                                            *)

Min(a, b) == IF a <= b THEN a ELSE b

\* The last n entries of a list, in their order.
LastEntries(list, n) == SubSeq(list, Len(list) - n + 1, Len(list))

\* The read returns min(limit, totalEntries) entries, the most recent ones
\* in their order, and leaves the stored history as it was.
ReturnsAtMostLimit(args) ==
    \E out \in {BU_getConversationHistoryHandler(Stores, args, now)} :
        ~out.threw =>
            \E stored \in {browserUseSessions[SessionIdOf(args)].conversationHistory} :
                /\ out.result.totalEntries = Len(stored)
                /\ out.result.returnedEntries = Min(LimitOf(args), Len(stored))
                /\ out.result.history
                     = [i \in 1..out.result.returnedEntries |->
                           LastEntries(stored, out.result.returnedEntries)[i].instruction]
                /\ out.store.bu[SessionIdOf(args)].conversationHistory = stored

\* C34: browseruse_conversation_history returns min(limit, totalEntries)
\* entries for every limit >= 0 (10 when no limit is sent), the most
\* recent ones in their original order, and does not change the stored
\* history.
C34_HistoryReadHonoursLimit ==
    config = BU_CONFIG => \A args \in HistoryArguments : ReturnsAtMostLimit(args)

---------------------------------------------------------------------------
(* Step conservation.                                                      *)

\* The steps a session holds in its main log and its branch logs; none if
\* it is not stored.
LogLength(store, id) == IF id \in DOMAIN store THEN ST_logLength(store[id]) ELSE 0

\* A call that returned a result added one step to the session it names; a
\* call answered with an error added none; no other session's logs moved.
OneStepPerResult(body) ==
    \A id \in DOMAIN sessions' :
        LogLength(sessions', id)
          = LogLength(sessions, id)
            + (IF response'.kind = "result" /\ id = SessionIdOf(body.args) THEN 1 ELSE 0)

\* C35: every sequential_thinking call that returns a result appends
\* exactly one step to exactly one log of its session, and a call that
\* returns an error appends none, so that a session's steps and branch
\* steps together are as many as the calls that returned a result for it.
C35_StepConservation ==
    [][(config = ST_CONFIG) => EveryCall(ThinkingBodies, OneStepPerResult)]_vars

---------------------------------------------------------------------------
(* The range of the progress.                                              *)

\* The arguments are within the bounds the input schema declares.
WithinSchema(args) == args.thoughtNumber >= 1 /\ args.totalThoughts >= 1

ProgressIsPercentage(body) ==
    WithinSchema(body.args) =>
        /\ response'.kind = "result"
        /\ ThinkingResult(body).progressPercentage \in 0..100

\* C36: every sequential_thinking call with thoughtNumber >= 1 and
\* totalThoughts >= 1 reports a progressPercentage between 0 and 100.
C36_ProgressWithinPercent ==
    [][\A body \in LinearBodies :
          ~Post(body, MockActions[1], MaxSteps) \/ ProgressIsPercentage(body)]_vars

---------------------------------------------------------------------------
(* Timestamps.                                                             *)

\* The session under id went on from one state to the next: created as it
\* was, last activity no earlier than it was.
WentOn(id) ==
    /\ Store'[id].created = Store[id].created
    /\ LastActive(Store'[id]) >= LastActive(Store[id])

\* The session under id was past its timeout, was swept, and a new session
\* was created under its id in the same call.
Replaced(id) ==
    /\ config \in {PW_CONFIG, BU_CONFIG}
    /\ IdleTooLong(Store[id])
    /\ Store'[id].created = now'

TimestampsOrdered ==
    \A id \in DOMAIN Store' :
        /\ LastActive(Store'[id]) >= Store'[id].created
        /\ LastActive(Store'[id]) <= now'
        /\ id \in DOMAIN Store => (WentOn(id) \/ Replaced(id))

\* C37: a session's created never changes while the session exists, its
\* last-activity timestamp is never earlier than created and never
\* decreases from one state to the next; only a session swept as expired
\* gives way to a new one under its id.
C37_TimestampsOrdered == [][TimestampsOrdered]_vars

\* A session created at the start, used one timeout later, and still
\* stored one timeout after that.
C37_Witness ==
    \E id \in DOMAIN Store :
        /\ Store[id].created = 0
        /\ LastActive(Store[id]) = TickMs
        /\ now = 2 * TickMs

---------------------------------------------------------------------------
(* Registry consistency.                                                   *)

\* The names tools/list returns in this state.
Listed == LET tools == Listing("1").envelope.result.tools
          IN  {tools[i] : i \in 1..Len(tools)}

\* The names a client may try: those of all three registries, one that is
\* in none, and one every plain object inherits.
TriedNames ==
    UNION {HandlerNames(cfg) : cfg \in SharedConfigs} \cup {"no_such_tool"} \cup InheritedNames

\* tools/call resolves the name to a handler: the dispatcher does not
\* answer "Unknown tool".
Resolves(name) ==
    \E out \in {handleMCPRequest(ToolCall("1", name, NoArguments), config, Stores,
                                 MockActions[1], now)} :
        ~(out.envelope.kind = "error" /\ out.envelope.message = "Unknown tool: " \o name)

\* C38: for each shared configuration, the names tools/list returns are
\* the names tools/call resolves to a handler: every listed tool is
\* callable and no unlisted name is.
C38_ListedIsCallable ==
    config \in SharedConfigs => Listed = {name \in TriedNames : Resolves(name)}

---------------------------------------------------------------------------
(* The URL a Browser-use session holds.                                    *)

\* The call is a browseruse_navigate that returned a result; SameSession
\* tells a session that was there before from one swept and re-created.
BrowserUseNavigated(body) ==
    body.method = "tools/call" /\ body.name = "browseruse_navigate" /\ response'.kind = "result"

UrlFollowsNavigate(body) ==
    \A id \in DOMAIN browserUseSessions' :
        IF BrowserUseNavigated(body) /\ id = SessionIdOf(body.args)
        THEN browserUseSessions'[id].currentUrl = body.args.url
        ELSE IF SameSession(id)
        THEN browserUseSessions'[id].currentUrl = browserUseSessions[id].currentUrl
        ELSE browserUseSessions'[id].currentUrl = Undefined

\* C39: after a browseruse_navigate that returned a result the session's
\* currentUrl is the url argument of the call, absent when the call had an
\* instruction and no url whatever URL was stored before; every other
\* Browser-use call leaves the currentUrl of every session as it was, and
\* a session it creates has none.
C39_CurrentUrlFollowsNavigate ==
    [][(config = BU_CONFIG) => EveryCall(BrowserUseBodies, UrlFollowsNavigate)]_vars

\* A navigate with a url has returned a result: a session holds that url.
C39_Witness ==
    /\ config = BU_CONFIG
    /\ response.kind = "result"
    /\ \E id \in DOMAIN browserUseSessions :
           browserUseSessions[id].currentUrl = "https://a.example/"

---------------------------------------------------------------------------
(* RateLimit.                                                              *)

\* windowMs: number = 60000, maxRequests: number = 100
DEFAULT_WINDOW_MS == 60000

DEFAULT_MAX_REQUESTS == 100

WindowOf(windowMs) == IF windowMs = UndefinedNum THEN DEFAULT_WINDOW_MS ELSE windowMs

MaxRequestsOf(maxRequests) ==
    IF maxRequests = UndefinedNum THEN DEFAULT_MAX_REQUESTS ELSE maxRequests

\* RateLimit.check(identifier, windowMs, maxRequests) at Date.now() = t: the
\* map it leaves and the value it returns.
RateLimit_check(store, identifier, windowMs, maxRequests, t) ==
    LET windowStart == t - WindowOf(windowMs)
        known == IF identifier \in DOMAIN store THEN store ELSE MapSet(store, identifier, <<>>)
        userRequests == known[identifier]
        InWindow(time) == time > windowStart
        validRequests == SelectSeq(userRequests, InWindow)
    IN  IF Len(validRequests) >= MaxRequestsOf(maxRequests)
        THEN [requests |-> known, allowed |-> FALSE]
        ELSE [requests |-> MapSet(known, identifier, Append(validRequests, t)),
              allowed |-> TRUE]

MaxChecks == 3

MaxClock == 2

Identifiers == {"u", "v"}

WindowArgs == {UndefinedNum, 1, 2}

MaxRequestsArgs == {UndefinedNum, 0, 1, 2}

\* One call of RateLimit.check.
Check(identifier, windowMs, maxRequests) ==
    /\ Len(checks) < MaxChecks
    /\ \E out \in {RateLimit_check(requests, identifier, windowMs, maxRequests, now)} :
          /\ requests' = out.requests
          /\ checks' = Append(checks, [identifier |-> identifier, at |-> now,
                                       windowMs |-> WindowOf(windowMs),
                                       maxRequests |-> MaxRequestsOf(maxRequests),
                                       allowed |-> out.allowed])
    /\ UNCHANGED <<now, sessions, browserSessions, browserUseSessions, submitted,
                   response, config, streams>>

\* A millisecond passes.
Wait ==
    /\ now < MaxClock
    /\ now' = now + 1
    /\ UNCHANGED <<sessions, browserSessions, browserUseSessions, submitted, response,
                   config, streams, requests, checks>>

InitRateLimit == InitWith({ST_CONFIG})

NextRateLimit ==
    \/ Wait
    \/ \E identifier \in Identifiers : \E windowMs \in WindowArgs :
          \E maxRequests \in MaxRequestsArgs : Check(identifier, windowMs, maxRequests)

SpecRateLimit == InitRateLimit /\ [][NextRateLimit]_vars

\* The timestamps stored for an identifier; none when it has no entry.
TimestampsOf(store, identifier) ==
    IF identifier \in DOMAIN store THEN store[identifier] ELSE <<>>

\* The earlier calls for the identifier of `call` that were admitted later
\* than call.at - call.windowMs.
AdmittedInWindow(call) ==
    {j \in 1..Len(checks) :
        /\ checks[j].allowed
        /\ checks[j].identifier = call.identifier
        /\ checks[j].at > call.at - call.windowMs}

LastCheck == checks'[Len(checks')]

CheckIsSound ==
    Len(checks') > Len(checks) =>
        /\ LastCheck.allowed => Cardinality(AdmittedInWindow(LastCheck)) < LastCheck.maxRequests
        /\ ~LastCheck.allowed =>
               \A id \in Identifiers : TimestampsOf(requests', id) = TimestampsOf(requests, id)
        /\ \A id \in Identifiers \ {LastCheck.identifier} :
               TimestampsOf(requests', id) = TimestampsOf(requests, id)

\* C40: RateLimit.check returns true only if fewer than maxRequests of the
\* requests it admitted before for the identifier have a timestamp later
\* than now - windowMs, so that it admits at most maxRequests requests of
\* an identifier in any window of windowMs; a call that returns false
\* leaves every stored timestamp as it was, and a call for one identifier
\* leaves the timestamps of the others as they were.
C40_SlidingWindowLimit == [][CheckIsSound]_vars

====
